---- MODULE Spec2Model ----
(***************************************************************************)
(* One execution of handleChatCompletion, the DeepSeek chat-completion     *)
(* proxy handler: agent resolution, limit check, model optimization,       *)
(* trust evaluation, the upstream call, the streaming relay with its       *)
(* try/finally, tool-invocation policy, cost accounting and the            *)
(* interaction record.                                                     *)
(*                                                                         *)
(* Encoding of JavaScript values:                                          *)
(*   - an absent string (undefined) is Undef, a null string is NullStr;    *)
(*   - an optional number or object is a tuple: <<>> absent, <<v>> present;*)
(*   - accumulatedToolCalls is a JS sparse array: position i of the array  *)
(*     is element i + 1 of the sequence, an unassigned position is Hole.   *)
(***************************************************************************)
EXTENDS Integers, Sequences, FiniteSets, TLC

VARIABLES
    pc,                    \* position of the handler
    body,                  \* the request body: model, stream, messages, tools
    resolvedAgent,         \* <<>> before resolution, <<agent id>> after
    model,                 \* `model`: the model sent upstream
    contextIsTrusted,      \* verdict of evaluateIfContextIsTrusted
    filteredMessages,      \* messages after applyUpdates / TOON conversion
    toonStats,             \* <<>> or <<stats>> of convertToolResultsToToon
    tokenPrices,           \* TokenPriceModel rows: model -> price source
    upstreamCalls,         \* requests given to deepSeekClient.chat.completions.create
    chunks,                \* `chunks`: every chunk received from the stream
    accumulatedContent,
    accumulatedRefusal,
    accumulatedToolCalls,
    tokenUsage,            \* <<>> or <<[input, output]>>
    assistantMessage,      \* <<>> (undefined) or <<message>>
    toolInvocationRefusal, \* "pending", "allow", "deny"
    written,               \* frames given to reply.raw.write, in order
    clientConnected,       \* FALSE once the client has gone away
    reply,                 \* status / body sent with reply.send, head, end
    pendingError,          \* <<>> or <<error>>: exception in flight
    thrown,                \* <<>> or <<ApiError>> thrown to the caller
    records,               \* arguments of InteractionModel.create, in order
    blockedReported,       \* arguments of reportBlockedTools, in order
    stages,                \* pipeline stages entered, in order
    agents,                \* AgentModel rows (agent ids)
    response,              \* <<>> or <<the non-streaming upstream response>>
    policyCalls,           \* arguments of evaluatePolicies, in order
    optimizedModel         \* <<>> or <<target model>>: the router's answer

\* State of the other units: the model router's rule table.
VARIABLES
    optimizationRules      \* rows of optimizationRulesTable the router reads

routerVars == <<optimizationRules>>

\* State of SsoProviderModel: the table and the calls in progress.
VARIABLES
    ssoProvidersTable,     \* rows of schema.ssoProvidersTable
    ssoCalls,              \* per caller: the call it made, its position, its result
    ssoNextId              \* the id the next inserted row gets

ssoVars == <<ssoProvidersTable, ssoCalls, ssoNextId>>

\* State of the two test files: manager.test.ts and interaction.test.ts.
VARIABLES
    managerRun,            \* the run of describe("McpServerRuntimeManager")
    interactionRun         \* the run of describe("Access Control")

suiteVars == <<managerRun, interactionRun>>

\* State of ApiKeyModelModel: the join table and the calls in progress.
VARIABLES
    apiKeyModelsTable,     \* committed rows of schema.apiKeyModelsTable
    apiKeyCalls            \* per caller: the call it made and its transaction

apiKeyVars == <<apiKeyModelsTable, apiKeyCalls>>

\* State of the price table under two requests that ensure prices at once.
VARIABLES
    tokenPriceTable,       \* rows of TokenPriceModel: model -> <<>> or rows
    priceRequests          \* per request: its models and its position

priceVars == <<tokenPriceTable, priceRequests>>

otherVars == <<routerVars, ssoVars, suiteVars, apiKeyVars, priceVars>>

handlerVars == <<pc, body, resolvedAgent, model, contextIsTrusted, filteredMessages,
          toonStats, tokenPrices, upstreamCalls, chunks, accumulatedContent,
          accumulatedRefusal, accumulatedToolCalls, tokenUsage,
          assistantMessage, toolInvocationRefusal, written, clientConnected,
          reply, pendingError, thrown, records, blockedReported, stages,
          agents, response, policyCalls, optimizedModel>>

vars == <<handlerVars, otherVars>>

\* The other units at rest while one of them is explored.
RouterIdle == optimizationRules = {}

SsoIdle ==
    /\ ssoProvidersTable = {}
    /\ ssoCalls = <<>>
    /\ ssoNextId = 0

SuiteIdle ==
    /\ managerRun = <<>>
    /\ interactionRun = <<>>

ApiKeyIdle ==
    /\ apiKeyModelsTable = {}
    /\ apiKeyCalls = <<>>

PriceIdle ==
    /\ tokenPriceTable = <<>>
    /\ priceRequests = <<>>

----------------------------------------------------------------------------
(* Bounds of the model. *)

\* Chunks the upstream stream may yield for a request that passed the
\* pipeline unchanged (no model substitution, no sanitization, no TOON).
MaxChunks == 3

\* Chunks the upstream stream may yield for every other streaming request.
MaxChunksRewritten == 1

----------------------------------------------------------------------------
(* JavaScript values. *)

Undef == "<undefined>"
NullStr == "<null>"
Null == <<>>
Some(v) == <<v>>

\* x || NullStr for a string x: the empty string is falsy.
OrNull(s) == IF s = "" \/ s = Undef THEN NullStr ELSE s

\* n || null for an optional number: absent and 0 are falsy.
NumOrNull(n) == IF n = Null \/ n = Some(0) THEN Null ELSE n

\* n || 0 for an optional number.
NumOrZero(n) == IF n = Null THEN 0 ELSE n[1]

\* Truthiness of a string-valued property.
Truthy(s) == s # "" /\ s # Undef /\ s # NullStr

----------------------------------------------------------------------------
(* The request. *)

RequestedModel == "deepseek-reasoner"
SubstituteModel == "deepseek-chat"

\* The message history of the request: a user turn and one tool result.
Messages == <<[role |-> "user", content |-> "question"],
              [role |-> "tool", content |-> "tool result"]>>

FunctionTools == <<[type |-> "function", name |-> "f"],
                   [type |-> "custom", name |-> "g"]>>

Requests ==
    [model : {RequestedModel}, stream : BOOLEAN, messages : {Messages},
     tools : {<<>>, FunctionTools}]

\* tools || [] mapped to its names (enabledToolNames).
EnabledToolNames(tools) == {tools[i].name : i \in 1..Len(tools)}

----------------------------------------------------------------------------
(* What the upstream provider may send. *)

Usages ==
    {[prompt_tokens |-> 0, completion_tokens |-> 0],
     [prompt_tokens |-> 2, completion_tokens |-> 1]}

\* A tool-call delta: index, id, function.name, function.arguments.  An
\* absent id, name or arguments is the empty string: the handler only
\* tests these for truthiness.
Delta(index, id, name, arguments) ==
    [index |-> index, id |-> id, name |-> name, arguments |-> arguments]

StartDeltas ==
    {Delta(0, "call_a", "f", ""), Delta(0, "call_b", "g", ""),
     Delta(1, "call_b", "g", "")}

ArgumentDeltas ==
    {Delta(0, "", "", "{"), Delta(0, "", "", "}"), Delta(1, "", "", "{")}

ToolCallDeltas == StartDeltas \cup ArgumentDeltas

UpstreamId == "chatcmpl-upstream"

\* A chunk with choices[0].delta and choices[0].finish_reason flattened;
\* tool_calls is Null (absent) or Some(list of deltas).
Chunk(usage, role, content, refusal, toolCalls, finish) ==
    [id |-> UpstreamId, object |-> "chat.completion.chunk", usage |-> usage,
     role |-> role, content |-> content, refusal |-> refusal,
     tool_calls |-> toolCalls, finish_reason |-> finish]

RelayedChunks ==
    {Chunk(Null, "assistant", "a", Undef, Null, NullStr),
     Chunk(Null, Undef, "b", Undef, Null, NullStr),
     Chunk(Null, Undef, Undef, "r", Null, NullStr),
     Chunk(Null, Undef, Undef, Undef, Null, "tool_calls")}

\* The chunk that carries only usage: choices is empty.
UsageChunks ==
    {Chunk(Some(u), Undef, Undef, Undef, Null, NullStr) : u \in Usages}

ToolCallChunks ==
    {Chunk(Null, Undef, Undef, Undef, Some(<<d>>), NullStr) : d \in ToolCallDeltas}
    \cup {Chunk(Null, Undef, "b", Undef, Some(<<Delta(0, "", "", "}")>>),
                 "tool_calls")}

UpstreamChunks == RelayedChunks \cup UsageChunks \cup ToolCallChunks

\* Errors an awaited call may reject with: with or without a status.
NoStatus == 0
UpstreamErrors ==
    {[status |-> NoStatus, message |-> "socket hang up"],
     [status |-> 503, message |-> "upstream unavailable"],
     [status |-> 503, message |-> "upstream overloaded"]}

ErrorOf(message) == [status |-> NoStatus, message |-> message]

\* What the stream's iterator rejects with when the stream breaks.
StreamError == ErrorOf("stream interrupted")

\* Tool calls of a complete (non-streaming) response message.
ToolCall(id, name, arguments) ==
    [id |-> id, type |-> "function", name |-> name, arguments |-> arguments]

ResponseMessages ==
    {[role |-> "assistant", content |-> "a", refusal |-> NullStr,
      tool_calls |-> Null],
     [role |-> "assistant", content |-> NullStr, refusal |-> NullStr,
      tool_calls |-> Some(<<ToolCall("call_a", "f", "{}")>>)],
     [role |-> "assistant", content |-> NullStr, refusal |-> NullStr,
      tool_calls |-> Some(<<ToolCall("call_a", "f", "{}"),
                            ToolCall("call_b", "g", "{")>>)]}

Responses ==
    {[id |-> UpstreamId, object |-> "chat.completion",
      message |-> m,
      finish_reason |-> IF m.tool_calls = Null THEN "stop" ELSE "tool_calls",
      usage |-> u] :
        m \in ResponseMessages, u \in {Null} \cup {Some(x) : x \in Usages}}

----------------------------------------------------------------------------
(* Collaborators whose code is outside the handler. *)

KnownAgent == "agent-1"
DefaultAgent == "default-agent"

\* Optimization rules (optimizationRulesTable): scope, condition, target.
Rule(entityType, entityId, hasTools, target, priority, enabled, createdAt) ==
    [entityType |-> entityType, entityId |-> entityId, hasTools |-> hasTools,
     targetModel |-> target, priority |-> priority, enabled |-> enabled,
     createdAt |-> createdAt]

OtherModel == "deepseek-coder"

RulePool ==
    {Rule("organization", "org", FALSE, SubstituteModel, 0, TRUE, 1),
     Rule("agent", KnownAgent, FALSE, OtherModel, 10, TRUE, 2),
     Rule("agent", KnownAgent, TRUE, SubstituteModel, 10, TRUE, 3),
     Rule("agent", KnownAgent, TRUE, OtherModel, 10, TRUE, 4),
     Rule("agent", DefaultAgent, FALSE, OtherModel, 10, FALSE, 5),
     Rule("team", "team-of-default", TRUE, OtherModel, 0, TRUE, 6)}

TeamsOf(agent) == IF agent = DefaultAgent THEN {"team-of-default"} ELSE {}

RuleMatches(r, agent, hasTools) ==
    /\ r.enabled
    /\ r.hasTools = hasTools
    /\ \/ r.entityType = "organization"
       \/ r.entityType = "agent" /\ r.entityId = agent
       \/ r.entityType = "team" /\ r.entityId \in TeamsOf(agent)

\* r is before q in the router's order: greater priority, then newer.
RuleBefore(r, q) ==
    \/ r.priority > q.priority
    \/ r.priority = q.priority /\ r.createdAt > q.createdAt

\* utils.costOptimization.getOptimizedModel: Null or Some(target model).
getOptimizedModel(rules, agent, hasTools) ==
    LET matching == {r \in rules : RuleMatches(r, agent, hasTools)}
    IN  IF matching = {} THEN Null
        ELSE Some((CHOOSE r \in matching :
                      \A q \in matching \ {r} : RuleBefore(r, q)).targetModel)

Models == {RequestedModel, SubstituteModel, OtherModel}

\* getDefaultPricing and an operator's custom price, per token.
DefaultPricing(m) ==
    IF m = RequestedModel THEN [input |-> 3, output |-> 5]
    ELSE IF m = SubstituteModel THEN [input |-> 1, output |-> 2]
    ELSE [input |-> 2, output |-> 3]

CustomPricing == [input |-> 7, output |-> 11]

\* An ensure that inserts a row whether or not the model has one.
createIfNotExistsInserting(prices, m) ==
    [prices EXCEPT ![m] = Append(@, DefaultPricing(m))]

\* TokenPriceModel.createIfNotExists: insert the defaults when no row exists.
createIfNotExists(prices, m) ==
    IF prices[m] = Null THEN [prices EXCEPT ![m] = Some(DefaultPricing(m))]
    ELSE prices

\* utils.costOptimization.calculateCost: Null without a price or usage.
calculateCost(prices, m, input, output) ==
    IF prices[m] = Null \/ input = Null \/ output = Null THEN Null
    ELSE Some(input[1] * prices[m][1].input + output[1] * prices[m][1].output)

\* Number.prototype.toFixed(10) of an integral cost: its decimal string,
\* kept as the pair of integer part and ten fractional digits.
toFixed10(n) == <<n, "0000000000">>

\* cost?.toFixed(10) ?? null
FixedOrNull(cost) == IF cost = Null THEN Null ELSE Some(toFixed10(cost[1]))

\* utils.adapters.deepseek.getUsageTokens
getUsageTokens(usage) ==
    [input |-> Some(usage.prompt_tokens), output |-> Some(usage.completion_tokens)]

\* utils.adapters.deepseek.applyUpdates: a new list, tool results replaced.
applyUpdates(messages, toolResultUpdates) ==
    [i \in 1..Len(messages) |->
        IF i \in DOMAIN toolResultUpdates
        THEN [messages[i] EXCEPT !.content = toolResultUpdates[i]]
        ELSE messages[i]]

NoUpdates == <<>>
SanitizingUpdates == [i \in {2} |-> "sanitized tool result"]

\* utils.adapters.deepseek.convertToolResultsToToon: tool results re-encoded.
convertToolResultsToToon(messages) ==
    [i \in 1..Len(messages) |->
        IF messages[i].role = "tool"
        THEN [messages[i] EXCEPT !.content = "toon:" \o messages[i].content]
        ELSE messages[i]]

ToonStats == [toonTokensBefore |-> 9, toonTokensAfter |-> 6, toonCostSavings |-> 3]

\* What evaluateIfContextIsTrusted may answer, with the notifications it
\* asks for (the banner callback once, the progress callback `progress` times).
TrustOutcomes ==
    {[contextIsTrusted |-> TRUE, toolResultUpdates |-> NoUpdates,
      banner |-> FALSE, progress |-> 0],
     [contextIsTrusted |-> FALSE, toolResultUpdates |-> NoUpdates,
      banner |-> FALSE, progress |-> 0],
     [contextIsTrusted |-> FALSE, toolResultUpdates |-> SanitizingUpdates,
      banner |-> TRUE, progress |-> 0],
     [contextIsTrusted |-> FALSE, toolResultUpdates |-> SanitizingUpdates,
      banner |-> TRUE, progress |-> 1]}

----------------------------------------------------------------------------
(* Frames written to the client with reply.raw.write. *)

DoneFrame ==
    [Chunk(Null, Undef, Undef, Undef, Null, NullStr) EXCEPT
        !.id = "[DONE]", !.object = "[DONE]"]

\* startChunk of the trust evaluator's banner callback.
BannerFrame ==
    [Chunk(Null, "assistant", "Analyzing with Dual LLM:", Undef, Null, NullStr)
        EXCEPT !.id = "chatcmpl-sanitizing"]

\* progressChunk of the trust evaluator's progress callback.
ProgressFrame ==
    [Chunk(Null, Undef, "Question/Options/Answer", Undef, Null, NullStr)
        EXCEPT !.id = "chatcmpl-sanitizing"]

RefusalMessage == "tool invocation blocked by policy"
ContentMessage == "I tried to invoke a tool that policy does not allow"

\* A replacement message that leaves refusal null.
RefusalAssistantMessageNullRefusal ==
    [role |-> "assistant", content |-> ContentMessage,
     refusal |-> NullStr, tool_calls |-> Null]

\* The assistant message that replaces a denied turn.
RefusalAssistantMessage ==
    [role |-> "assistant", content |-> ContentMessage,
     refusal |-> RefusalMessage, tool_calls |-> Null]

\* refusalChunk: the replacement message as the delta, finish_reason stop.
RefusalFrame ==
    [Chunk(Null, RefusalAssistantMessage.role, RefusalAssistantMessage.content,
           RefusalAssistantMessage.refusal, RefusalAssistantMessage.tool_calls,
           "stop")
        EXCEPT !.id = "chatcmpl-blocked"]

\* chunks[0]?.id || "chatcmpl-unknown"
FirstChunkId(cs) == IF Len(cs) > 0 THEN cs[1].id ELSE "chatcmpl-unknown"

\* idChunk and argsChunk of the call at array position index.
IdFrame(cs, index, toolCall) ==
    [Chunk(Null, Undef, Undef, Undef,
           Some(<<[index |-> index, id |-> toolCall.id,
                   name |-> toolCall.name, arguments |-> ""]>>), NullStr)
        EXCEPT !.id = FirstChunkId(cs)]

ArgsFrame(cs, index, toolCall) ==
    [Chunk(Null, Undef, Undef, Undef,
           Some(<<[index |-> index, id |-> toolCall.id,
                   name |-> "", arguments |-> toolCall.arguments]>>), NullStr)
        EXCEPT !.id = FirstChunkId(cs)]

----------------------------------------------------------------------------
(* Accumulation of the stream. *)

\* An array position that was never assigned.
Hole == [id |-> "", type |-> "<empty>", name |-> "", arguments |-> ""]

\* A delta's arguments assigned where the handler appends them.
AccumulateDeltaOverwriting(calls, d) ==
    LET at == d.index + 1
        grown == [i \in 1..(IF at > Len(calls) THEN at ELSE Len(calls)) |->
                     IF i <= Len(calls) THEN calls[i] ELSE Hole]
        old == IF grown[at] = Hole
               THEN [id |-> d.id, type |-> "function", name |-> "",
                     arguments |-> ""]
               ELSE grown[at]
        new == [id |-> IF Truthy(d.id) THEN d.id ELSE old.id,
                type |-> old.type,
                name |-> IF Truthy(d.name) THEN d.name ELSE old.name,
                arguments |-> IF Truthy(d.arguments) THEN d.arguments
                              ELSE old.arguments]
    IN  [grown EXCEPT ![at] = new]

\* accumulatedToolCalls after one toolCallDelta.
AccumulateDelta(calls, d) ==
    LET at == d.index + 1
        grown == [i \in 1..(IF at > Len(calls) THEN at ELSE Len(calls)) |->
                     IF i <= Len(calls) THEN calls[i] ELSE Hole]
        old == IF grown[at] = Hole
               THEN [id |-> d.id, type |-> "function", name |-> "",
                     arguments |-> ""]
               ELSE grown[at]
        new == [id |-> IF Truthy(d.id) THEN d.id ELSE old.id,
                type |-> old.type,
                name |-> IF Truthy(d.name) THEN d.name ELSE old.name,
                arguments |-> IF Truthy(d.arguments)
                              THEN old.arguments \o d.arguments
                              ELSE old.arguments]
    IN  [grown EXCEPT ![at] = new]

RECURSIVE AccumulateDeltas(_, _)
AccumulateDeltas(calls, deltas) ==
    IF deltas = <<>> THEN calls
    ELSE AccumulateDeltas(AccumulateDelta(calls, Head(deltas)), Tail(deltas))

\* The relay's guard without its test that the delta has no tool calls.
ForwardedWithToolCalls(c) ==
    \/ c.content # Undef
    \/ c.refusal # Undef
    \/ Truthy(c.role)
    \/ Truthy(c.finish_reason)

\* The guard of the relay: the chunk is written to the client as it is.
Forwarded(c) ==
    /\ c.tool_calls = Null
    /\ \/ c.content # Undef
       \/ c.refusal # Undef
       \/ Truthy(c.role)
       \/ Truthy(c.finish_reason)

\* The assistant message built from what was accumulated.
AccumulatedMessage(content, refusal, calls) ==
    [role |-> "assistant", content |-> OrNull(content),
     refusal |-> OrNull(refusal),
     tool_calls |-> IF Len(calls) > 0 THEN Some(calls) ELSE Null]

\* JSON.parse over the argument strings the model's alphabet can build:
\* "{}" is the only one that parses; the parsed object is ParsedObject.
ParsedObject == "[object Object]"
JsonParses(s) == s = "{}"

\* A finally block that leaves every argument string as it is.
ParseArgumentsNever(calls) == calls

\* The finally block's loop: arguments replaced by their parsed value when
\* they parse; a failing parse, or a hole, leaves the position as it is.
ParseArguments(calls) ==
    [i \in 1..Len(calls) |->
        IF calls[i] # Hole /\ JsonParses(calls[i].arguments)
        THEN [calls[i] EXCEPT !.arguments = ParsedObject]
        ELSE calls[i]]

\* Array.prototype.map skips holes: the calls handed to evaluatePolicies.
PolicyInput(message) ==
    IF message.tool_calls = Null THEN <<>>
    ELSE [i \in 1..Len(message.tool_calls[1]) |->
            IF message.tool_calls[1][i] = Hole THEN Hole
            ELSE [toolCallName |-> message.tool_calls[1][i].name,
                  toolCallArgs |-> message.tool_calls[1][i].arguments]]

\* utils.toolInvocation.evaluatePolicies decides per call; the rules are
\* not part of the handler, so each call may be allowed or denied, and the
\* evaluation may reject.
PolicyOutcomes(calls) ==
    {"allow", "throw"} \cup
    (IF \E i \in 1..Len(calls) : calls[i] # Hole THEN {"deny"} ELSE {})

----------------------------------------------------------------------------
(* The handler. *)

NoReply == [status |-> 0, error |-> Null, response |-> Null,
            headWritten |-> FALSE, ended |-> FALSE]

InitialPrices ==
    {[m \in Models |-> Null],
     [m \in Models |-> IF m = RequestedModel THEN Some(CustomPricing) ELSE Null]}

\* What every execution of the handler starts with, whatever its position.
HandlerStart ==
    /\ body \in Requests
    /\ model = RequestedModel
    /\ contextIsTrusted = TRUE
    /\ filteredMessages = Messages
    /\ toonStats = Null
    /\ tokenPrices \in InitialPrices
    /\ upstreamCalls = <<>>
    /\ chunks = <<>>
    /\ accumulatedContent = ""
    /\ accumulatedRefusal = ""
    /\ accumulatedToolCalls = <<>>
    /\ tokenUsage = Null
    /\ assistantMessage = Null
    /\ toolInvocationRefusal = "pending"
    /\ written = <<>>
    /\ clientConnected = TRUE
    /\ reply = NoReply
    /\ pendingError = Null
    /\ thrown = Null
    /\ records = <<>>
    /\ blockedReported = <<>>
    /\ response = Null
    /\ policyCalls = <<>>
    /\ optimizedModel = Null

Init ==
    /\ pc = "resolveAgent"
    /\ resolvedAgent = Null
    /\ stages = <<>>
    /\ agents = {KnownAgent}
    /\ HandlerStart
    /\ RouterIdle
    /\ SsoIdle
    /\ SuiteIdle
    /\ ApiKeyIdle
    /\ PriceIdle

\* No request is being handled.
HandlerIdle ==
    /\ pc = "idle"
    /\ body = [model |-> RequestedModel, stream |-> FALSE,
               messages |-> Messages, tools |-> <<>>]
    /\ resolvedAgent = Null
    /\ model = RequestedModel
    /\ contextIsTrusted = TRUE
    /\ filteredMessages = Messages
    /\ toonStats = Null
    /\ tokenPrices = [m \in Models |-> Null]
    /\ upstreamCalls = <<>>
    /\ chunks = <<>>
    /\ accumulatedContent = ""
    /\ accumulatedRefusal = ""
    /\ accumulatedToolCalls = <<>>
    /\ tokenUsage = Null
    /\ assistantMessage = Null
    /\ toolInvocationRefusal = "pending"
    /\ written = <<>>
    /\ clientConnected = TRUE
    /\ reply = NoReply
    /\ pendingError = Null
    /\ thrown = Null
    /\ records = <<>>
    /\ blockedReported = <<>>
    /\ stages = <<>>
    /\ agents = {}
    /\ response = Null
    /\ policyCalls = <<>>
    /\ optimizedModel = Null

\* A request the pipeline left as it came: known agent, tools declared,
\* default prices, no substitution, trusted context, no TOON conversion.
PlainRequest ==
    /\ resolvedAgent = Some(KnownAgent)
    /\ body.tools # <<>>
    /\ model = body.model
    /\ tokenPrices[body.model] = Some(DefaultPricing(body.model))
    /\ contextIsTrusted
    /\ filteredMessages = body.messages
    /\ toonStats = Null

ChunkBound == IF PlainRequest THEN MaxChunks ELSE MaxChunksRewritten

\* The chunks explored: every shape after a plain request, a content chunk
\* or a usage chunk after the others.
StreamChunks ==
    IF PlainRequest THEN UpstreamChunks
    ELSE UsageChunks \cup {Chunk(Null, "assistant", "a", Undef, Null, NullStr)}

\* reply.raw.write of frames: they reach the client while it is connected.
Write(frames) == IF clientConnected THEN written \o frames ELSE written

\* An agent lookup whose 404 reply is not followed by return.
AfterAgentLookupContinuing(found) == "checkLimits"

\* Where the handler goes after the agent lookup: not found returns.
AfterAgentLookup(found) == IF found THEN "checkLimits" ELSE "done"

\* Agent resolution: an explicit agentId must exist, otherwise the default
\* agent is fetched or created.
ResolveAgent ==
    /\ pc = "resolveAgent"
    /\ \E agentId \in {Undef, KnownAgent, "agent-unknown"} :
        IF agentId # Undef /\ agentId \notin agents
        THEN /\ reply' = [reply EXCEPT !.status = 404,
                            !.error = Some([message |-> "Agent not found",
                                            type |-> "not_found",
                                            code |-> Undef])]
             /\ pc' = AfterAgentLookup(FALSE)
             /\ UNCHANGED <<resolvedAgent, agents>>
        ELSE /\ resolvedAgent' =
                    Some(IF agentId # Undef THEN agentId ELSE DefaultAgent)
             /\ agents' = IF agentId # Undef THEN agents
                          ELSE agents \cup {DefaultAgent}
             /\ pc' = AfterAgentLookup(TRUE)
             /\ UNCHANGED reply
    /\ UNCHANGED <<body, model, contextIsTrusted, filteredMessages, toonStats,
                   tokenPrices, upstreamCalls, chunks, accumulatedContent,
                   accumulatedRefusal, accumulatedToolCalls, tokenUsage,
                   assistantMessage, toolInvocationRefusal, written,
                   clientConnected, pendingError, thrown, records,
                   blockedReported, stages, response, policyCalls,
                   optimizedModel,
                   otherVars>>

\* A limit check whose 429 reply is not followed by return.
AfterLimitCheckContinuing(limitViolation) == "optimize"

\* A handler that goes from the limit check to the trust evaluation, without
\* consulting the optimizer.
AfterLimitCheckSkippingOptimizer(limitViolation) ==
    IF limitViolation THEN "done" ELSE "trust"

\* Where the handler goes after the limit check: a violation returns.
AfterLimitCheck(limitViolation) ==
    IF limitViolation THEN "done" ELSE "optimize"

\* LimitValidationService.checkLimitsBeforeRequest and the 429 reply.
CheckLimits ==
    /\ pc = "checkLimits"
    /\ stages' = Append(stages, "limit")
    /\ \E limitViolation \in BOOLEAN :
        IF limitViolation
        THEN /\ reply' = [reply EXCEPT !.status = 429,
                            !.error = Some([message |-> "limit reached",
                                            type |-> "rate_limit_exceeded",
                                            code |-> "token_cost_limit_exceeded"])]
             /\ pc' = AfterLimitCheck(limitViolation)
        ELSE /\ pc' = AfterLimitCheck(limitViolation)
             /\ UNCHANGED reply
    /\ UNCHANGED <<body, resolvedAgent, model, contextIsTrusted,
                   filteredMessages, toonStats, tokenPrices, upstreamCalls,
                   chunks, accumulatedContent, accumulatedRefusal,
                   accumulatedToolCalls, tokenUsage, assistantMessage,
                   toolInvocationRefusal, written, clientConnected,
                   pendingError, thrown, records, blockedReported, agents,
                   response, policyCalls,
                   optimizedModel,
                   otherVars>>

\* A selection that falls back to the substitute model without a match.
SelectedModelSubstituting(optimized, baselineModel) ==
    IF optimized # Null THEN optimized[1] ELSE SubstituteModel

\* A model selection that ignores the router's answer.
SelectedModelBaselineOnly(optimized, baselineModel) == baselineModel

\* The model after the optimizer's answer.
SelectedModel(optimized, baselineModel) ==
    IF optimized # Null THEN optimized[1] ELSE baselineModel

\* Price rows ensured for the baseline model and, if another model was
\* selected, for that one.
EnsuredPrices(prices, baselineModel, selected) ==
    IF selected # baselineModel
    THEN createIfNotExists(createIfNotExists(prices, baselineModel), selected)
    ELSE createIfNotExists(prices, baselineModel)

\* Model selection (getOptimizedModel) and createIfNotExists of the prices.
Optimize ==
    /\ pc = "optimize"
    /\ \E rules \in SUBSET RulePool :
        /\ optimizedModel' =
                getOptimizedModel(rules, resolvedAgent[1], Len(body.tools) > 0)
        /\ model' = SelectedModel(optimizedModel', body.model)
        /\ tokenPrices' = EnsuredPrices(tokenPrices, body.model, model')
    /\ stages' = stages \o <<"optimizer", "pricing">>
    /\ pc' = "trust"
    /\ UNCHANGED <<body, resolvedAgent, contextIsTrusted, filteredMessages,
                   toonStats, upstreamCalls, chunks, accumulatedContent,
                   accumulatedRefusal, accumulatedToolCalls, tokenUsage,
                   assistantMessage, toolInvocationRefusal, written,
                   clientConnected, reply, pendingError, thrown, records,
                   blockedReported, agents, response, policyCalls,
                   otherVars>>

\* Callbacks handed to the trust evaluator whether the request streams or not.
NotificationsAlways(stream, outcome) ==
    (IF outcome.banner THEN <<BannerFrame>> ELSE <<>>)
    \o [i \in 1..outcome.progress |-> ProgressFrame]

\* Frames the trust evaluator's callbacks write: they exist only when the
\* request streams.
Notifications(stream, outcome) ==
    IF stream
    THEN (IF outcome.banner THEN <<BannerFrame>> ELSE <<>>)
         \o [i \in 1..outcome.progress |-> ProgressFrame]
    ELSE <<>>

\* evaluateIfContextIsTrusted and applyUpdates.
EvaluateTrust ==
    /\ pc = "trust"
    /\ \E outcome \in TrustOutcomes :
        /\ contextIsTrusted' = outcome.contextIsTrusted
        /\ filteredMessages' =
                applyUpdates(body.messages, outcome.toolResultUpdates)
        /\ written' = Write(Notifications(body.stream, outcome))
    /\ stages' = Append(stages, "trust")
    /\ pc' = "toon"
    /\ UNCHANGED <<body, resolvedAgent, model, toonStats, tokenPrices,
                   upstreamCalls, chunks, accumulatedContent,
                   accumulatedRefusal, accumulatedToolCalls, tokenUsage,
                   assistantMessage, toolInvocationRefusal, clientConnected,
                   reply, pendingError, thrown, records, blockedReported,
                   agents, response, policyCalls,
                   optimizedModel,
                   otherVars>>

\* shouldApplyToonCompression and convertToolResultsToToon.
CompressToolResults ==
    /\ pc = "toon"
    /\ \E shouldApplyToonCompression \in BOOLEAN :
        IF shouldApplyToonCompression
        THEN /\ filteredMessages' = convertToolResultsToToon(filteredMessages)
             /\ toonStats' = Some(ToonStats)
        ELSE UNCHANGED <<filteredMessages, toonStats>>
    /\ pc' = "upstream"
    /\ UNCHANGED <<body, resolvedAgent, model, contextIsTrusted, tokenPrices,
                   upstreamCalls, chunks, accumulatedContent,
                   accumulatedRefusal, accumulatedToolCalls, tokenUsage,
                   assistantMessage, toolInvocationRefusal, written,
                   clientConnected, reply, pendingError, thrown, records,
                   blockedReported, stages, agents, response, policyCalls,
                   optimizedModel,
                   otherVars>>

\* A catch block that always answers with the internal-error code.
ApiErrorAlways500(error) == [statusCode |-> 500, message |-> error.message]

\* The ApiError built by catch: the error's status if it has one, else 500.
ApiError(error) ==
    [statusCode |-> IF error.status # NoStatus THEN error.status ELSE 500,
     message |-> error.message]

\* catch (error) { throw new ApiError(statusCode, message) }: what the
\* handler throws when error reaches the catch block.
Caught(error) == Some(ApiError(error))

\* The request given to deepSeekClient.chat.completions.create.
UpstreamRequest ==
    [model |-> model, messages |-> filteredMessages,
     tools |-> IF Len(body.tools) > 0 THEN Some(body.tools) ELSE Null,
     stream |-> body.stream]

\* A handler that calls the upstream again after a failed call.
AfterUpstreamFailureRetrying == "upstream"

\* Where the handler is after the upstream call rejected: catch has thrown.
AfterUpstreamFailure == "done"

\* The upstream call: it rejects, or returns the stream (the response head
\* is then written) or the complete response.
CallUpstream ==
    /\ pc = "upstream"
    /\ upstreamCalls' = Append(upstreamCalls, UpstreamRequest)
    /\ stages' = Append(stages, "upstream")
    /\ \/ \E e \in UpstreamErrors :
            /\ thrown' = Caught(e)
            /\ pc' = AfterUpstreamFailure
            /\ UNCHANGED <<reply, response>>
       \/ /\ body.stream
          /\ reply' = [reply EXCEPT !.status = 200, !.headWritten = TRUE]
          /\ pc' = "relay"
          /\ UNCHANGED <<thrown, response>>
       \/ /\ ~body.stream
          /\ \E r \in Responses : response' = Some(r)
          /\ pc' = "policy"
          /\ UNCHANGED <<thrown, reply>>
    /\ UNCHANGED <<body, resolvedAgent, model, contextIsTrusted,
                   filteredMessages, toonStats, tokenPrices, chunks,
                   accumulatedContent, accumulatedRefusal,
                   accumulatedToolCalls, tokenUsage, assistantMessage,
                   toolInvocationRefusal, written, clientConnected,
                   pendingError, records, blockedReported, agents,
                   policyCalls,
                   optimizedModel,
                   otherVars>>

----------------------------------------------------------------------------
(* The streaming branch: the relay loop inside try. *)

\* A capture that keeps the first usage it saw.
UsageAfterKeepingFirst(usage, c) ==
    IF c.usage # Null /\ usage = Null THEN Some(getUsageTokens(c.usage[1]))
    ELSE usage

\* tokenUsage after a chunk: a chunk with usage overwrites it.
UsageAfter(usage, c) ==
    IF c.usage # Null THEN Some(getUsageTokens(c.usage[1])) ELSE usage

\* An accumulation outside the relay's guard: every fragment is appended.
ContentAfterUnguarded(content, c) ==
    IF Truthy(c.content) THEN content \o c.content ELSE content

\* accumulatedContent / accumulatedRefusal after a chunk: only a forwarded
\* chunk adds its fragment.
ContentAfter(content, c) ==
    IF Forwarded(c) /\ Truthy(c.content) THEN content \o c.content ELSE content

RefusalAfter(refusal, c) ==
    IF Forwarded(c) /\ Truthy(c.refusal) THEN refusal \o c.refusal ELSE refusal

ToolCallsAfter(calls, c) ==
    IF c.tool_calls # Null THEN AccumulateDeltas(calls, c.tool_calls[1])
    ELSE calls

WriteError == ErrorOf("write after the client went away")

\* One iteration of for await (const chunk of streamingResponse).
RelayChunk ==
    /\ pc = "relay"
    /\ Len(chunks) < ChunkBound
    /\ \E c \in StreamChunks :
        /\ chunks' = Append(chunks, c)
        /\ tokenUsage' = UsageAfter(tokenUsage, c)
        /\ \/ /\ written' = IF Forwarded(c) THEN Write(<<c>>) ELSE written
              /\ accumulatedContent' = ContentAfter(accumulatedContent, c)
              /\ accumulatedRefusal' = RefusalAfter(accumulatedRefusal, c)
              /\ accumulatedToolCalls' = ToolCallsAfter(accumulatedToolCalls, c)
              /\ pc' = "relay"
              /\ UNCHANGED pendingError
           \/ /\ Forwarded(c)
              /\ ~clientConnected
              /\ pendingError' = Some(WriteError)
              /\ pc' = "finally"
              /\ UNCHANGED <<written, accumulatedContent, accumulatedRefusal,
                             accumulatedToolCalls>>
    /\ UNCHANGED <<body, resolvedAgent, model, contextIsTrusted,
                   filteredMessages, toonStats, tokenPrices, upstreamCalls,
                   assistantMessage, toolInvocationRefusal, clientConnected,
                   reply, thrown, records, blockedReported, stages, agents,
                   response, policyCalls,
                   optimizedModel,
                   otherVars>>

\* The stream's iterator rejects.
StreamFails ==
    /\ pc = "relay"
    /\ pendingError' = Some(StreamError)
    /\ pc' = "finally"
    /\ UNCHANGED <<body, resolvedAgent, model, contextIsTrusted,
                   filteredMessages, toonStats, tokenPrices, upstreamCalls,
                   chunks, accumulatedContent, accumulatedRefusal,
                   accumulatedToolCalls, tokenUsage, assistantMessage,
                   toolInvocationRefusal, written, clientConnected, reply,
                   thrown, records, blockedReported, stages, agents, response,
                   policyCalls,
                   optimizedModel,
                   otherVars>>

PolicyError == ErrorOf("policy evaluation failed")

\* The stream is exhausted: assistantMessage is assigned from what was
\* accumulated and evaluatePolicies is awaited.
EvaluateStreamPolicies ==
    /\ pc = "relay"
    /\ LET message == AccumulatedMessage(accumulatedContent,
                                         accumulatedRefusal,
                                         accumulatedToolCalls)
       IN  /\ assistantMessage' = Some(message)
           /\ policyCalls' = Append(policyCalls, PolicyInput(message))
           /\ \E outcome \in PolicyOutcomes(PolicyInput(message)) :
                IF outcome = "throw"
                THEN /\ pendingError' = Some(PolicyError)
                     /\ pc' = "finally"
                     /\ UNCHANGED toolInvocationRefusal
                ELSE /\ toolInvocationRefusal' = outcome
                     /\ pc' = "emit"
                     /\ UNCHANGED pendingError
    /\ stages' = Append(stages, "policy")
    /\ UNCHANGED <<body, resolvedAgent, model, contextIsTrusted,
                   filteredMessages, toonStats, tokenPrices, upstreamCalls,
                   chunks, accumulatedContent, accumulatedRefusal,
                   accumulatedToolCalls, tokenUsage, written, clientConnected,
                   reply, thrown, records, blockedReported, agents, response,
                   optimizedModel,
                   otherVars>>

\* Positions of accumulatedToolCalls.entries() before the first hole.
BeforeFirstHole(calls) ==
    {i \in 1..Len(calls) : \A j \in 1..i : calls[j] # Hole}

\* idChunk and argsChunk of every call the loop over entries() reaches.
ToolCallFrames(cs, calls) ==
    LET n == Cardinality(BeforeFirstHole(calls))
    IN  [k \in 1..(2 * n) |->
            IF k % 2 = 1 THEN IdFrame(cs, (k - 1) \div 2, calls[(k + 1) \div 2])
            ELSE ArgsFrame(cs, (k - 1) \div 2, calls[k \div 2])]

HoleError == ErrorOf("Cannot read properties of undefined")

HasHole(calls) == \E i \in 1..Len(calls) : calls[i] = Hole

\* A stream whose refusal verdict is not acted upon.
DeniedNever == FALSE

Denied == Len(accumulatedToolCalls) > 0 /\ toolInvocationRefusal = "deny"

\* An emission that ends the stream before it writes the refusal chunk.
EmissionRefusalAfterDone ==
    IF Len(accumulatedToolCalls) = 0 THEN <<DoneFrame>>
    ELSE IF toolInvocationRefusal = "deny" THEN <<DoneFrame, RefusalFrame>>
    ELSE ToolCallFrames(chunks, accumulatedToolCalls)
         \o (IF HasHole(accumulatedToolCalls) THEN <<>> ELSE <<DoneFrame>>)

\* An emission that writes [DONE] before the allowed tool calls.
EmissionDoneBeforeToolCalls ==
    IF Len(accumulatedToolCalls) = 0 THEN <<DoneFrame>>
    ELSE IF toolInvocationRefusal = "deny" THEN <<RefusalFrame, DoneFrame>>
    ELSE (IF HasHole(accumulatedToolCalls) THEN <<>> ELSE <<DoneFrame>>)
         \o ToolCallFrames(chunks, accumulatedToolCalls)

\* The frames the code after evaluatePolicies writes, in order: the refusal
\* chunk or the tool calls as chunks, then [DONE]; the loop over entries()
\* stops at a hole, and [DONE] is then never reached.
Emission ==
    IF Len(accumulatedToolCalls) = 0 THEN <<DoneFrame>>
    ELSE IF toolInvocationRefusal = "deny" THEN <<RefusalFrame, DoneFrame>>
    ELSE ToolCallFrames(chunks, accumulatedToolCalls)
         \o (IF HasHole(accumulatedToolCalls) THEN <<>> ELSE <<DoneFrame>>)

\* Everything from the verdict to return reply: on a denial the message is
\* replaced, the refusal chunk written and the blocked calls reported;
\* otherwise the tool calls are written as chunks; then [DONE] and end().
\* A write after the client went away is dropped or throws.
EmitVerdict ==
    /\ pc = "emit"
    /\ assistantMessage' = IF Denied THEN Some(RefusalAssistantMessage)
                           ELSE assistantMessage
    /\ \/ /\ written' = Write(Emission)
          /\ blockedReported' =
                IF Denied
                THEN Append(blockedReported, Len(accumulatedToolCalls))
                ELSE blockedReported
          /\ IF Len(accumulatedToolCalls) > 0 /\ ~Denied
                /\ HasHole(accumulatedToolCalls)
             THEN pendingError' = Some(HoleError) /\ UNCHANGED reply
             ELSE /\ reply' = [reply EXCEPT !.ended = TRUE]
                  /\ UNCHANGED pendingError
       \/ /\ ~clientConnected
          /\ \E k \in 1..Len(Emission) :
                blockedReported' =
                    IF Denied /\ k > 1
                    THEN Append(blockedReported, Len(accumulatedToolCalls))
                    ELSE blockedReported
          /\ pendingError' = Some(WriteError)
          /\ UNCHANGED <<written, reply>>
    /\ pc' = "finally"
    /\ UNCHANGED <<body, resolvedAgent, model, contextIsTrusted,
                   filteredMessages, toonStats, tokenPrices, upstreamCalls,
                   chunks, accumulatedContent, accumulatedRefusal,
                   accumulatedToolCalls, tokenUsage, toolInvocationRefusal,
                   clientConnected, thrown, records, stages, agents,
                   response, policyCalls,
                   optimizedModel,
                   otherVars>>

\* The client goes away while the relay loop runs.
ClientDisconnect ==
    /\ pc = "relay"
    /\ clientConnected
    /\ clientConnected' = FALSE
    /\ UNCHANGED <<pc, body, resolvedAgent, model, contextIsTrusted,
                   filteredMessages, toonStats, tokenPrices, upstreamCalls,
                   chunks, accumulatedContent, accumulatedRefusal,
                   accumulatedToolCalls, tokenUsage, assistantMessage,
                   toolInvocationRefusal, written, reply, pendingError,
                   thrown, records, blockedReported, stages, agents,
                   response, policyCalls,
                   optimizedModel,
                   otherVars>>

----------------------------------------------------------------------------
(* The finally block of the streaming branch. *)

\* assistantMessage as finally leaves it: the partial message is built
\* when the try block did not assign one.
FinalMessage ==
    IF assistantMessage = Null
    THEN AccumulatedMessage(accumulatedContent, accumulatedRefusal,
                            ParseArguments(accumulatedToolCalls))
    ELSE assistantMessage[1]

\* A baseline cost computed at the price of the model that was sent.
StreamBaselineCostOfModel ==
    IF tokenUsage # Null
    THEN calculateCost(tokenPrices, model,
                       Some(NumOrZero(tokenUsage[1].input)),
                       Some(NumOrZero(tokenUsage[1].output)))
    ELSE Null

\* baselineCost and costAfterOptimization of the streaming branch.
StreamBaselineCost ==
    IF tokenUsage # Null
    THEN calculateCost(tokenPrices, body.model,
                       Some(NumOrZero(tokenUsage[1].input)),
                       Some(NumOrZero(tokenUsage[1].output)))
    ELSE Null

StreamCostAfterOptimization ==
    IF tokenUsage # Null
    THEN calculateCost(tokenPrices, model,
                       Some(NumOrZero(tokenUsage[1].input)),
                       Some(NumOrZero(tokenUsage[1].output)))
    ELSE Null

\* A record whose `request` is the request after the pipeline rewrote it.
StreamInteractionRequestFiltered ==
    [profileId |-> resolvedAgent[1],
     type |-> "deepseek:chatCompletions",
     request |-> [body EXCEPT !.messages = filteredMessages],
     processedRequest |-> [body EXCEPT !.messages = filteredMessages],
     response |-> [id |-> FirstChunkId(chunks), object |-> "chat.completion",
                   message |-> FinalMessage, finish_reason |-> "stop",
                   usage |-> Null],
     model |-> model,
     inputTokens |-> IF tokenUsage = Null THEN Null
                     ELSE NumOrNull(tokenUsage[1].input),
     outputTokens |-> IF tokenUsage = Null THEN Null
                      ELSE NumOrNull(tokenUsage[1].output),
     cost |-> FixedOrNull(StreamCostAfterOptimization),
     baselineCost |-> FixedOrNull(StreamBaselineCost),
     toonStats |-> toonStats]

\* The argument of InteractionModel.create in the streaming branch.
StreamInteraction ==
    [profileId |-> resolvedAgent[1],
     type |-> "deepseek:chatCompletions",
     request |-> body,
     processedRequest |-> [body EXCEPT !.messages = filteredMessages],
     response |-> [id |-> FirstChunkId(chunks), object |-> "chat.completion",
                   message |-> FinalMessage, finish_reason |-> "stop",
                   usage |-> Null],
     model |-> model,
     inputTokens |-> IF tokenUsage = Null THEN Null
                     ELSE NumOrNull(tokenUsage[1].input),
     outputTokens |-> IF tokenUsage = Null THEN Null
                      ELSE NumOrNull(tokenUsage[1].output),
     cost |-> FixedOrNull(StreamCostAfterOptimization),
     baselineCost |-> FixedOrNull(StreamBaselineCost),
     toonStats |-> toonStats]

PersistError == ErrorOf("insert into interactions failed")

\* A create placed after the try block: skipped when an exception is pending.
StreamCreatesUnlessThrown ==
    IF pendingError = Null THEN <<StreamInteraction>> ELSE <<>>

\* A create that is skipped when no usage was captured.
StreamCreatesWithUsage ==
    IF tokenUsage # Null THEN <<StreamInteraction>> ELSE <<>>

\* A create that only runs when the loop consumed a chunk.
StreamCreatesAfterFirstChunk ==
    IF Len(chunks) > 0 THEN <<StreamInteraction>> ELSE <<>>

\* Interactions the finally block hands to InteractionModel.create.
StreamCreates == <<StreamInteraction>>

\* finally: partial message, costs, InteractionModel.create; then the
\* pending exception (or the one create raised) reaches the catch block, or
\* the handler returns.
StreamFinally ==
    /\ pc = "finally"
    /\ assistantMessage' = Some(FinalMessage)
    /\ accumulatedToolCalls' =
            IF assistantMessage = Null THEN ParseArguments(accumulatedToolCalls)
            ELSE accumulatedToolCalls
    /\ records' = records \o StreamCreates
    /\ stages' = Append(stages, "accounting")
    /\ \E persisted \in BOOLEAN :
        thrown' = IF ~persisted THEN Caught(PersistError)
                  ELSE IF pendingError # Null THEN Caught(pendingError[1])
                  ELSE Null
    /\ pendingError' = Null
    /\ pc' = "done"
    /\ UNCHANGED <<body, resolvedAgent, model, contextIsTrusted,
                   filteredMessages, toonStats, tokenPrices, upstreamCalls,
                   chunks, accumulatedContent, accumulatedRefusal, tokenUsage,
                   toolInvocationRefusal, written, clientConnected, reply,
                   blockedReported, agents, response, policyCalls,
                   optimizedModel,
                   otherVars>>

----------------------------------------------------------------------------
(* The non-streaming branch. *)

\* response after a denial: choices replaced by the refusal, stop.
DeniedResponse(r) ==
    [r EXCEPT !.message = RefusalAssistantMessage, !.finish_reason = "stop"]

\* assistantMessage.tool_calls?.length || 0
BlockedCount(message) ==
    IF message.tool_calls = Null THEN 0 ELSE Len(message.tool_calls[1])

\* evaluatePolicies on the response's message, and the denial.
EvaluateResponsePolicies ==
    /\ pc = "policy"
    /\ ~body.stream
    /\ policyCalls' = Append(policyCalls, PolicyInput(response[1].message))
    /\ stages' = Append(stages, "policy")
    /\ \E outcome \in PolicyOutcomes(PolicyInput(response[1].message)) :
        \/ /\ outcome = "throw"
           /\ thrown' = Caught(PolicyError)
           /\ pc' = "done"
           /\ assistantMessage' = Some(response[1].message)
           /\ UNCHANGED <<toolInvocationRefusal, response, blockedReported>>
        \/ /\ outcome = "allow"
           /\ toolInvocationRefusal' = outcome
           /\ assistantMessage' = Some(response[1].message)
           /\ pc' = "account"
           /\ UNCHANGED <<thrown, response, blockedReported>>
        \/ /\ outcome = "deny"
           /\ toolInvocationRefusal' = outcome
           /\ assistantMessage' = Some(RefusalAssistantMessage)
           /\ response' = Some(DeniedResponse(response[1]))
           /\ blockedReported' =
                Append(blockedReported, BlockedCount(response[1].message))
           /\ pc' = "account"
           /\ UNCHANGED thrown
    /\ UNCHANGED <<body, resolvedAgent, model, contextIsTrusted,
                   filteredMessages, toonStats, tokenPrices, upstreamCalls,
                   chunks, accumulatedContent, accumulatedRefusal,
                   accumulatedToolCalls, tokenUsage, written, clientConnected,
                   reply, pendingError, records, agents,
                   optimizedModel,
                   otherVars>>

\* response.usage ? getUsageTokens(response.usage) : {input: null, output: null}
ResponseUsage(r) ==
    IF r.usage # Null THEN getUsageTokens(r.usage[1])
    ELSE [input |-> Null, output |-> Null]

ResponseBaselineCost(usage) ==
    calculateCost(tokenPrices, body.model, usage.input, usage.output)

ResponseCostAfterOptimization(usage) ==
    calculateCost(tokenPrices, model, usage.input, usage.output)

\* The argument of InteractionModel.create in the non-streaming branch.
ResponseInteraction(r) ==
    [profileId |-> resolvedAgent[1],
     type |-> "deepseek:chatCompletions",
     request |-> body,
     processedRequest |-> [body EXCEPT !.messages = filteredMessages],
     response |-> r,
     model |-> model,
     inputTokens |-> ResponseUsage(r).input,
     outputTokens |-> ResponseUsage(r).output,
     cost |-> FixedOrNull(ResponseCostAfterOptimization(ResponseUsage(r))),
     baselineCost |-> FixedOrNull(ResponseBaselineCost(ResponseUsage(r))),
     toonStats |-> toonStats]

\* Usage, costs, InteractionModel.create, then reply.send(response); a
\* rejected create reaches the catch block before anything is sent.
AccountResponse ==
    /\ pc = "account"
    /\ tokenUsage' = Some(ResponseUsage(response[1]))
    /\ records' = Append(records, ResponseInteraction(response[1]))
    /\ stages' = Append(stages, "accounting")
    /\ \E persisted \in BOOLEAN :
        IF persisted
        THEN /\ reply' = [reply EXCEPT !.status = 200, !.response = response,
                                       !.ended = TRUE]
             /\ UNCHANGED thrown
        ELSE /\ thrown' = Caught(PersistError)
             /\ UNCHANGED reply
    /\ pc' = "done"
    /\ UNCHANGED <<body, resolvedAgent, model, contextIsTrusted,
                   filteredMessages, toonStats, tokenPrices, upstreamCalls,
                   chunks, accumulatedContent, accumulatedRefusal,
                   accumulatedToolCalls, assistantMessage,
                   toolInvocationRefusal, written, clientConnected,
                   pendingError, blockedReported, agents, response,
                   policyCalls,
                   optimizedModel,
                   otherVars>>

----------------------------------------------------------------------------

Next ==
    \/ ResolveAgent
    \/ CheckLimits
    \/ Optimize
    \/ EvaluateTrust
    \/ CompressToolResults
    \/ CallUpstream
    \/ RelayChunk
    \/ StreamFails
    \/ EvaluateStreamPolicies
    \/ EmitVerdict
    \/ ClientDisconnect
    \/ StreamFinally
    \/ EvaluateResponsePolicies
    \/ AccountResponse

Spec == Init /\ [][Next]_vars

\* The handler keeps running until it returns or throws, and a stream ends
\* or fails.
FairSpec == Spec /\ WF_vars(Next)

----------------------------------------------------------------------------
(* The model router on its own: every rule table, agent and tool flag. *)

RouterInit ==
    /\ pc = "optimize"
    /\ resolvedAgent \in {Some(KnownAgent), Some(DefaultAgent)}
    /\ stages = <<"limit">>
    /\ agents = {KnownAgent, DefaultAgent}
    /\ HandlerStart
    /\ optimizationRules \in SUBSET RulePool
    /\ SsoIdle
    /\ SuiteIdle
    /\ ApiKeyIdle
    /\ PriceIdle

\* Model selection with the rule table that is stored.
Route ==
    /\ pc = "optimize"
    /\ optimizedModel' =
            getOptimizedModel(optimizationRules, resolvedAgent[1],
                              Len(body.tools) > 0)
    /\ model' = SelectedModel(optimizedModel', body.model)
    /\ tokenPrices' = EnsuredPrices(tokenPrices, body.model, model')
    /\ stages' = stages \o <<"optimizer", "pricing">>
    /\ pc' = "trust"
    /\ UNCHANGED <<body, resolvedAgent, contextIsTrusted, filteredMessages,
                   toonStats, upstreamCalls, chunks, accumulatedContent,
                   accumulatedRefusal, accumulatedToolCalls, tokenUsage,
                   assistantMessage, toolInvocationRefusal, written,
                   clientConnected, reply, pendingError, thrown, records,
                   blockedReported, agents, response, policyCalls, otherVars>>

RouterNext == Route

RouterSpec == RouterInit /\ [][RouterNext]_vars

----------------------------------------------------------------------------
(* SsoProviderModel: the SSO providers of the organizations.  Each caller  *)
(* passes its own organizationId; two callers run their calls concurrently, *)
(* and a call is interleaved with the other caller at each await.           *)

\* Rows the table may ever hold (ids 1..MaxProviders).
MaxProviders == 3

Organizations == {"org-a", "org-b"}

\* A row of ssoProvidersTable; oidcConfig is stored as JSON text or null.
Provider(id, organizationId, providerId, domain, domainVerified, oidcConfig) ==
    [id |-> id, organizationId |-> organizationId, providerId |-> providerId,
     domain |-> domain, domainVerified |-> domainVerified,
     oidcConfig |-> oidcConfig]

SeedProviders ==
    {Provider(1, "org-a", "okta", "a.example.com", TRUE, "{}"),
     Provider(2, "org-b", "okta", "b.example.com", TRUE, NullStr)}

\* data of update: Partial<UpdateSsoProvider>.
UpdateData == [domain |-> "changed.example.com"]

\* A caller that has made no call yet.
NoCall == [op |-> "none", id |-> 0, at |-> "returned", result |-> Null]

\* A where-clause on the id alone.
SelectByIdOnly(id, organizationId) ==
    {r \in ssoProvidersTable : r.id = id}

\* where and(eq(id, id), eq(organizationId, organizationId))
SelectById(id, organizationId) ==
    {r \in ssoProvidersTable : r.id = id /\ r.organizationId = organizationId}

\* The provider as the model returns it: oidcConfig parsed, or undefined.
Returned(r) ==
    [r EXCEPT !.oidcConfig = IF Truthy(r.oidcConfig) /\ JsonParses(r.oidcConfig)
                             THEN ParsedObject ELSE Undef]

findAll(organizationId) ==
    {Returned(r) : r \in {q \in ssoProvidersTable :
                            q.organizationId = organizationId}}

findById(id, organizationId) ==
    IF SelectById(id, organizationId) = {} THEN Null
    ELSE Some(Returned(CHOOSE r \in SelectById(id, organizationId) : TRUE))

SsoInit ==
    /\ HandlerIdle
    /\ RouterIdle
    /\ ssoProvidersTable \in SUBSET SeedProviders
    /\ ssoCalls = [c \in Organizations |-> NoCall]
    /\ ssoNextId = 3
    /\ SuiteIdle
    /\ ApiKeyIdle
    /\ PriceIdle

\* The caller is between two calls.
Ready(c) == ssoCalls[c].at = "returned"

SsoFindAll(c) ==
    /\ Ready(c)
    /\ ssoCalls' = [ssoCalls EXCEPT ![c] =
            [op |-> "findAll", id |-> 0, at |-> "returned",
             result |-> Some(findAll(c))]]
    /\ UNCHANGED <<ssoProvidersTable, ssoNextId, handlerVars, routerVars, suiteVars,
                   apiKeyVars, priceVars>>

SsoFindById(c) ==
    /\ Ready(c)
    /\ \E id \in 1..MaxProviders :
        ssoCalls' = [ssoCalls EXCEPT ![c] =
            [op |-> "findById", id |-> id, at |-> "returned",
             result |-> findById(id, c)]]
    /\ UNCHANGED <<ssoProvidersTable, ssoNextId, handlerVars, routerVars, suiteVars,
                   apiKeyVars, priceVars>>

\* create: auth.api.registerSSOProvider inserts the row, the model selects
\* it by providerId and organizationId.
SsoCreateRegister(c) ==
    /\ Ready(c)
    /\ ssoNextId <= MaxProviders
    /\ \E providerId \in {"okta", "entra"} :
        LET row == Provider(ssoNextId, c, providerId, "new.example.com",
                            FALSE, "{}")
            found == {r \in ssoProvidersTable \cup {row} :
                        r.providerId = providerId /\ r.organizationId = c}
        IN  /\ ssoProvidersTable' = ssoProvidersTable \cup {row}
            /\ \E provider \in found :
                ssoCalls' = [ssoCalls EXCEPT ![c] =
                    [op |-> "create", id |-> provider.id, at |-> "verify",
                     result |-> Some(provider)]]
    /\ ssoNextId' = ssoNextId + 1
    /\ UNCHANGED <<handlerVars, routerVars, suiteVars,
                   apiKeyVars, priceVars>>

\* create: set domainVerified where the id is the selected provider's.
SsoCreateVerify(c) ==
    /\ ssoCalls[c].op = "create" /\ ssoCalls[c].at = "verify"
    /\ ssoProvidersTable' =
            {IF r.id = ssoCalls[c].id THEN [r EXCEPT !.domainVerified = TRUE]
             ELSE r : r \in ssoProvidersTable}
    /\ ssoCalls' = [ssoCalls EXCEPT ![c] =
            [@ EXCEPT !.at = "returned",
                      !.result = Some(Returned([@[1] EXCEPT
                                                !.domainVerified = TRUE]))]]
    /\ UNCHANGED <<ssoNextId, handlerVars, routerVars, suiteVars,
                   apiKeyVars, priceVars>>

\* update and delete: first check that the provider exists.
SsoLookup(c) ==
    /\ Ready(c)
    /\ \E op \in {"update", "delete"}, id \in 1..MaxProviders :
        ssoCalls' = [ssoCalls EXCEPT ![c] =
            IF findById(id, c) = Null
            THEN [op |-> op, id |-> id, at |-> "returned",
                  result |-> IF op = "update" THEN Null ELSE Some(FALSE)]
            ELSE [op |-> op, id |-> id, at |-> "write", result |-> Null]]
    /\ UNCHANGED <<ssoProvidersTable, ssoNextId, handlerVars, routerVars, suiteVars,
                   apiKeyVars, priceVars>>

\* update: set(data) where id and organizationId, returning the row.
SsoUpdateWrite(c) ==
    /\ ssoCalls[c].op = "update" /\ ssoCalls[c].at = "write"
    /\ LET hit == SelectById(ssoCalls[c].id, c)
           updated == {[r EXCEPT !.domain = UpdateData.domain] : r \in hit}
       IN  /\ ssoProvidersTable' = (ssoProvidersTable \ hit) \cup updated
           /\ ssoCalls' = [ssoCalls EXCEPT ![c] =
                [@ EXCEPT !.at = "returned",
                          !.result = IF updated = {} THEN Null
                                     ELSE Some(Returned(CHOOSE r \in updated :
                                                            TRUE))]]
    /\ UNCHANGED <<ssoNextId, handlerVars, routerVars, suiteVars,
                   apiKeyVars, priceVars>>

\* delete: where id and organizationId, returning the ids deleted.
SsoDeleteWrite(c) ==
    /\ ssoCalls[c].op = "delete" /\ ssoCalls[c].at = "write"
    /\ LET hit == SelectById(ssoCalls[c].id, c)
       IN  /\ ssoProvidersTable' = ssoProvidersTable \ hit
           /\ ssoCalls' = [ssoCalls EXCEPT ![c] =
                [@ EXCEPT !.at = "returned",
                          !.result = Some(Cardinality(hit) > 0)]]
    /\ UNCHANGED <<ssoNextId, handlerVars, routerVars, suiteVars,
                   apiKeyVars, priceVars>>

SsoNext ==
    \E c \in Organizations :
        \/ SsoFindAll(c)
        \/ SsoFindById(c)
        \/ SsoCreateRegister(c)
        \/ SsoCreateVerify(c)
        \/ SsoLookup(c)
        \/ SsoUpdateWrite(c)
        \/ SsoDeleteWrite(c)

SsoSpec == SsoInit /\ [][SsoNext]_vars

----------------------------------------------------------------------------
(* The test files of McpServerRuntimeManager and of InteractionModel.  The  *)
(* test runner runs the two files in separate workers, each file's tests in *)
(* order, each test's statements in order.                                  *)

\* describe("McpServerRuntimeManager"): the statements of its five tests,
\* in order.
ManagerTests ==
    <<
       \* test("should return false when k8s config fails to load")
       << [op |-> "spyOn", method |-> "loadFromDefault", impl |-> "throws"],
          [op |-> "construct"],
          [op |-> "expectIsEnabled", toBe |-> FALSE],
          [op |-> "mockRestore", method |-> "loadFromDefault"] >>,
       \* test("should return true when k8s config loads successfully")
       << [op |-> "spyOn", method |-> "loadFromDefault", impl |-> "returns"],
          [op |-> "spyOn", method |-> "makeApiClient", impl |-> "returns"],
          [op |-> "construct"],
          [op |-> "expectIsEnabled", toBe |-> TRUE],
          [op |-> "mockRestore", method |-> "loadFromDefault"],
          [op |-> "mockRestore", method |-> "makeApiClient"] >>,
       \* test("should return false after shutdown")
       << [op |-> "spyOn", method |-> "loadFromDefault", impl |-> "returns"],
          [op |-> "spyOn", method |-> "makeApiClient", impl |-> "returns"],
          [op |-> "construct"],
          [op |-> "expectIsEnabled", toBe |-> TRUE],
          [op |-> "shutdown"],
          [op |-> "expectIsEnabled", toBe |-> FALSE],
          [op |-> "mockRestore", method |-> "loadFromDefault"],
          [op |-> "mockRestore", method |-> "makeApiClient"] >>,
       \* test("should start with not_initialized status when config loads")
       << [op |-> "spyOn", method |-> "loadFromDefault", impl |-> "returns"],
          [op |-> "spyOn", method |-> "makeApiClient", impl |-> "returns"],
          [op |-> "construct"],
          [op |-> "expectIsEnabled", toBe |-> TRUE],
          [op |-> "mockRestore", method |-> "loadFromDefault"],
          [op |-> "mockRestore", method |-> "makeApiClient"] >>,
       \* test("should have error status when config fails")
       << [op |-> "spyOn", method |-> "loadFromDefault", impl |-> "throws"],
          [op |-> "construct"],
          [op |-> "expectIsEnabled", toBe |-> FALSE],
          [op |-> "mockRestore", method |-> "loadFromDefault"] >>
    >>

\* The methods of k8s.KubeConfig.prototype as the library provides them.
RealKubeConfig == [loadFromDefault |-> "real", makeApiClient |-> "real"]

\* What a call of the method does: a spy does what its implementation says,
\* the library's own method succeeds or throws as the machine's kubeconfig
\* decides.
CallOutcomes(impl) == IF impl = "real" THEN {"returns", "throws"} ELSE {impl}

\* No manager has been constructed.
NoManager == [status |-> "none", configLoaded |-> FALSE, shutDown |-> FALSE]

\* new McpServerRuntimeManager(): the constructor loads the kubeconfig and
\* makes the API client; the status is "error" when that threw and
\* "not_initialized" when it did not.
McpServerRuntimeManager(load, client) ==
    LET loaded == load = "returns" /\ client = "returns"
    IN  [status       |-> IF loaded THEN "not_initialized" ELSE "error",
         configLoaded |-> loaded,
         shutDown     |-> FALSE]

\* manager.isEnabled: the runtime is usable unless its configuration failed
\* to load or it was shut down.
isEnabled(manager) == manager.status \notin {"none", "error", "stopped"}

\* await manager.shutdown(): the runtime is stopped; a manager in error
\* stays in error.
shutdown(manager) ==
    [manager EXCEPT !.status   = IF @ = "error" THEN @ ELSE "stopped",
                    !.shutDown = TRUE]

\* The statement the run is at.
ManagerStatement ==
    IF /\ managerRun.test \in 1..Len(ManagerTests)
       /\ managerRun.step \in 1..Len(ManagerTests[managerRun.test])
    THEN ManagerTests[managerRun.test][managerRun.step]
    ELSE [op |-> "none"]

\* The run after the statement: the next statement, or the next test.
ManagerAdvanced(run) ==
    IF run.step < Len(ManagerTests[run.test])
    THEN [run EXCEPT !.step = @ + 1]
    ELSE [run EXCEPT !.test = @ + 1, !.step = 0]

\* beforeEach: vi.clearAllMocks() keeps the spies' implementations,
\* vi.resetModules() makes the next import construct the module afresh.
ManagerBeforeEach ==
    /\ managerRun.test \in 1..Len(ManagerTests)
    /\ managerRun.step = 0
    /\ managerRun' = [managerRun EXCEPT !.step = 1, !.manager = NoManager]
    /\ UNCHANGED <<interactionRun, handlerVars, routerVars, ssoVars,
                   apiKeyVars, priceVars>>

\* vi.spyOn(k8s.KubeConfig.prototype, method) with an implementation.
ManagerSpyOn ==
    /\ ManagerStatement.op = "spyOn"
    /\ managerRun' = ManagerAdvanced(
            [managerRun EXCEPT !.kubeConfig[ManagerStatement.method] =
                                    ManagerStatement.impl])
    /\ UNCHANGED <<interactionRun, handlerVars, routerVars, ssoVars,
                   apiKeyVars, priceVars>>

\* const manager = new McpServerRuntimeManager() of the freshly imported module.
ManagerConstruct ==
    /\ ManagerStatement.op = "construct"
    /\ \E load \in CallOutcomes(managerRun.kubeConfig.loadFromDefault),
          client \in CallOutcomes(managerRun.kubeConfig.makeApiClient) :
            managerRun' = ManagerAdvanced(
                [managerRun EXCEPT !.manager =
                    McpServerRuntimeManager(load,
                        IF load = "returns" THEN client ELSE "returns")])
    /\ UNCHANGED <<interactionRun, handlerVars, routerVars, ssoVars,
                   apiKeyVars, priceVars>>

\* expect(manager.isEnabled).toBe(value): the outcome is recorded.
ManagerExpectIsEnabled ==
    /\ ManagerStatement.op = "expectIsEnabled"
    /\ managerRun' = ManagerAdvanced(
            [managerRun EXCEPT !.expects =
                Append(@, isEnabled(managerRun.manager) = ManagerStatement.toBe)])
    /\ UNCHANGED <<interactionRun, handlerVars, routerVars, ssoVars,
                   apiKeyVars, priceVars>>

\* The statement below passed over without shutting the manager down.
ManagerShutdownSkipped ==
    /\ ManagerStatement.op = "shutdown"
    /\ managerRun' = ManagerAdvanced(managerRun)
    /\ UNCHANGED <<interactionRun, handlerVars, routerVars, ssoVars,
                   apiKeyVars, priceVars>>

\* await manager.shutdown().
ManagerShutdown ==
    /\ ManagerStatement.op = "shutdown"
    /\ managerRun' = ManagerAdvanced(
            [managerRun EXCEPT !.manager = shutdown(@)])
    /\ UNCHANGED <<interactionRun, handlerVars, routerVars, ssoVars,
                   apiKeyVars, priceVars>>

\* spy.mockRestore(): the library's own method is back.
ManagerMockRestore ==
    /\ ManagerStatement.op = "mockRestore"
    /\ managerRun' = ManagerAdvanced(
            [managerRun EXCEPT !.kubeConfig[ManagerStatement.method] = "real"])
    /\ UNCHANGED <<interactionRun, handlerVars, routerVars, ssoVars,
                   apiKeyVars, priceVars>>

\* describe("Access Control"): the statements of its six tests, in order.
AccessControlTests ==
    <<
       \* test("admin can see all interactions")
       << [op |-> "makeAdmin", as |-> "admin"],
          [op |-> "AgentModel.create", as |-> "agent1", teams |-> {}],
          [op |-> "AgentModel.create", as |-> "agent2", teams |-> {}],
          [op |-> "InteractionModel.create", agentId |-> "agent1"],
          [op |-> "InteractionModel.create", agentId |-> "agent2"],
          [op |-> "findAllPaginated", limit |-> 100, offset |-> 0,
               userId |-> "admin", isAdmin |-> TRUE],
          [op |-> "expect", what |-> "length", toBe |-> 2] >>,
       \* test("member only sees interactions for accessible agents")
       << [op |-> "makeUser", as |-> "user1"],
          [op |-> "makeUser", as |-> "user2"],
          [op |-> "makeAdmin", as |-> "admin"],
          [op |-> "makeOrganization", as |-> "org"],
          [op |-> "makeTeam", as |-> "team1"],
          [op |-> "addMember", teamId |-> "team1", userId |-> "user1"],
          [op |-> "makeTeam", as |-> "team2"],
          [op |-> "addMember", teamId |-> "team2", userId |-> "user2"],
          [op |-> "AgentModel.create", as |-> "agent1", teams |-> {"team1"}],
          [op |-> "AgentModel.create", as |-> "agent2", teams |-> {"team2"}],
          [op |-> "InteractionModel.create", agentId |-> "agent1"],
          [op |-> "InteractionModel.create", agentId |-> "agent2"],
          [op |-> "findAllPaginated", limit |-> 100, offset |-> 0,
               userId |-> "user1", isAdmin |-> FALSE],
          [op |-> "expect", what |-> "length", toBe |-> 1],
          [op |-> "expect", what |-> "agentId", toBe |-> "agent1"] >>,
       \* test("member with no access sees no interactions")
       << [op |-> "makeUser", as |-> "user"],
          [op |-> "AgentModel.create", as |-> "agent1", teams |-> {}],
          [op |-> "InteractionModel.create", agentId |-> "agent1"],
          [op |-> "findAllPaginated", limit |-> 100, offset |-> 0,
               userId |-> "user", isAdmin |-> FALSE],
          [op |-> "expect", what |-> "length", toBe |-> 0] >>,
       \* test("findById returns interaction for admin")
       << [op |-> "makeAdmin", as |-> "admin"],
          [op |-> "AgentModel.create", as |-> "agent", teams |-> {}],
          [op |-> "InteractionModel.create", agentId |-> "agent"],
          [op |-> "findById", userId |-> "admin", isAdmin |-> TRUE],
          [op |-> "expect", what |-> "notNull"],
          [op |-> "expect", what |-> "id"] >>,
       \* test("findById returns interaction for user with agent access")
       << [op |-> "makeUser", as |-> "user"],
          [op |-> "makeAdmin", as |-> "admin"],
          [op |-> "makeOrganization", as |-> "org"],
          [op |-> "makeTeam", as |-> "team"],
          [op |-> "addMember", teamId |-> "team", userId |-> "user"],
          [op |-> "AgentModel.create", as |-> "agent", teams |-> {"team"}],
          [op |-> "InteractionModel.create", agentId |-> "agent"],
          [op |-> "findById", userId |-> "user", isAdmin |-> FALSE],
          [op |-> "expect", what |-> "notNull"],
          [op |-> "expect", what |-> "id"] >>,
       \* test("findById returns null for user without agent access")
       << [op |-> "makeUser", as |-> "user"],
          [op |-> "AgentModel.create", as |-> "agent", teams |-> {}],
          [op |-> "InteractionModel.create", agentId |-> "agent"],
          [op |-> "findById", userId |-> "user", isAdmin |-> FALSE],
          [op |-> "expect", what |-> "null"] >>
    >>

\* The test database after the fixture reset it and beforeEach made its agent.
FreshDatabase ==
    [users         |-> {},
     admins        |-> {},
     organizations |-> {},
     teams         |-> {},
     members       |-> {},
     agents        |-> {[id |-> "agentId", teams |-> {}]},
     interactions  |-> <<>>]

\* The teams the user is a member of.
UserTeams(db, userId) == {m[1] : m \in {n \in db.members : n[2] = userId}}

\* The agents assigned to at least one team of the user.
AccessibleAgentIds(db, userId) ==
    {a.id : a \in {b \in db.agents : b.teams \cap UserTeams(db, userId) # {}}}

\* The interactions the caller may see: all of them for an admin, those of
\* the accessible agents for anyone else.
VisibleInteractions(db, userId, isAdmin) ==
    LET visible(i) == isAdmin \/ i.agentId \in AccessibleAgentIds(db, userId)
    IN  SelectSeq(db.interactions, visible)

\* rows.slice(offset, offset + limit) of the query's LIMIT and OFFSET.
Page(rows, limit, offset) ==
    SubSeq(rows, offset + 1, IF offset + limit < Len(rows)
                             THEN offset + limit ELSE Len(rows))

\* InteractionModel.findAllPaginated(pagination, sorting, userId, isAdmin).data
InteractionModel_findAllPaginated(db, limit, offset, userId, isAdmin) ==
    Page(VisibleInteractions(db, userId, isAdmin), limit, offset)

\* InteractionModel.findById(id, userId, isAdmin): the row, or null.
InteractionModel_findById(db, id, userId, isAdmin) ==
    LET hasId(i) == i.id = id
    IN  Page(SelectSeq(VisibleInteractions(db, userId, isAdmin), hasId), 1, 0)

\* No query has been made in the test.
NoQuery == [kind |-> "none", userId |-> "", isAdmin |-> FALSE]

\* The statement the run is at.
AccessControlStatement ==
    IF /\ interactionRun.test \in 1..Len(AccessControlTests)
       /\ interactionRun.step \in 1..Len(AccessControlTests[interactionRun.test])
    THEN AccessControlTests[interactionRun.test][interactionRun.step]
    ELSE [op |-> "none"]

\* The run after the statement: the next statement, or the next test.
AccessControlAdvanced(run) ==
    IF run.step < Len(AccessControlTests[run.test])
    THEN [run EXCEPT !.step = @ + 1]
    ELSE [run EXCEPT !.test = @ + 1, !.step = 0]

\* What an expect statement finds in the rows the last query returned.
ExpectHolds(statement, run) ==
    CASE statement.what = "length"  -> Len(run.rows) = statement.toBe
      [] statement.what = "agentId" ->
            /\ Len(run.rows) > 0
            /\ run.rows[1].agentId = statement.toBe
      [] statement.what = "notNull" -> run.rows # <<>>
      [] statement.what = "id"      ->
            /\ run.rows # <<>>
            /\ run.rows[1].id = run.interaction
      [] statement.what = "null"    -> run.rows = <<>>

\* beforeEach: the database is fresh and makeAgent() made one agent.
AccessControlBeforeEach ==
    /\ interactionRun.test \in 1..Len(AccessControlTests)
    /\ interactionRun.step = 0
    /\ interactionRun' = [interactionRun EXCEPT !.step = 1,
                                                !.db = FreshDatabase,
                                                !.interaction = 0,
                                                !.query = NoQuery,
                                                !.rows = <<>>]
    /\ UNCHANGED <<managerRun, handlerVars, routerVars, ssoVars,
                   apiKeyVars, priceVars>>

\* await makeUser().
AccessControlMakeUser ==
    /\ AccessControlStatement.op = "makeUser"
    /\ interactionRun' = AccessControlAdvanced(
            [interactionRun EXCEPT !.db.users = @ \cup {AccessControlStatement.as}])
    /\ UNCHANGED <<managerRun, handlerVars, routerVars, ssoVars,
                   apiKeyVars, priceVars>>

\* await makeAdmin().
AccessControlMakeAdmin ==
    /\ AccessControlStatement.op = "makeAdmin"
    /\ interactionRun' = AccessControlAdvanced(
            [interactionRun EXCEPT
                !.db.users  = @ \cup {AccessControlStatement.as},
                !.db.admins = @ \cup {AccessControlStatement.as}])
    /\ UNCHANGED <<managerRun, handlerVars, routerVars, ssoVars,
                   apiKeyVars, priceVars>>

\* await makeOrganization().
AccessControlMakeOrganization ==
    /\ AccessControlStatement.op = "makeOrganization"
    /\ interactionRun' = AccessControlAdvanced(
            [interactionRun EXCEPT
                !.db.organizations = @ \cup {AccessControlStatement.as}])
    /\ UNCHANGED <<managerRun, handlerVars, routerVars, ssoVars,
                   apiKeyVars, priceVars>>

\* await makeTeam(org.id, admin.id).
AccessControlMakeTeam ==
    /\ AccessControlStatement.op = "makeTeam"
    /\ interactionRun' = AccessControlAdvanced(
            [interactionRun EXCEPT !.db.teams = @ \cup {AccessControlStatement.as}])
    /\ UNCHANGED <<managerRun, handlerVars, routerVars, ssoVars,
                   apiKeyVars, priceVars>>

\* The statement below passed over without adding the member.
AccessControlAddMemberSkipped ==
    /\ AccessControlStatement.op = "addMember"
    /\ interactionRun' = AccessControlAdvanced(interactionRun)
    /\ UNCHANGED <<managerRun, handlerVars, routerVars, ssoVars,
                   apiKeyVars, priceVars>>

\* await TeamModel.addMember(team.id, user.id).
AccessControlAddMember ==
    /\ AccessControlStatement.op = "addMember"
    /\ interactionRun' = AccessControlAdvanced(
            [interactionRun EXCEPT !.db.members = @ \cup
                {<<AccessControlStatement.teamId, AccessControlStatement.userId>>}])
    /\ UNCHANGED <<managerRun, handlerVars, routerVars, ssoVars,
                   apiKeyVars, priceVars>>

\* await AgentModel.create({ name, teams }).
AccessControlAgentCreate ==
    /\ AccessControlStatement.op = "AgentModel.create"
    /\ interactionRun' = AccessControlAdvanced(
            [interactionRun EXCEPT !.db.agents = @ \cup
                {[id    |-> AccessControlStatement.as,
                  teams |-> AccessControlStatement.teams]}])
    /\ UNCHANGED <<managerRun, handlerVars, routerVars, ssoVars,
                   apiKeyVars, priceVars>>

\* await InteractionModel.create({ agentId, request, response, type }).
AccessControlInteractionCreate ==
    /\ AccessControlStatement.op = "InteractionModel.create"
    /\ LET id == Len(interactionRun.db.interactions) + 1
       IN  interactionRun' = AccessControlAdvanced(
                [interactionRun EXCEPT
                    !.db.interactions =
                        Append(@, [id      |-> id,
                                   agentId |-> AccessControlStatement.agentId]),
                    !.interaction = id])
    /\ UNCHANGED <<managerRun, handlerVars, routerVars, ssoVars,
                   apiKeyVars, priceVars>>

\* await InteractionModel.findAllPaginated({ limit, offset }, undefined,
\* user.id, isAdmin).
AccessControlFindAllPaginated ==
    /\ AccessControlStatement.op = "findAllPaginated"
    /\ interactionRun' = AccessControlAdvanced(
            [interactionRun EXCEPT
                !.query = [kind    |-> "findAllPaginated",
                           userId  |-> AccessControlStatement.userId,
                           isAdmin |-> AccessControlStatement.isAdmin],
                !.rows  = InteractionModel_findAllPaginated(
                                interactionRun.db,
                                AccessControlStatement.limit,
                                AccessControlStatement.offset,
                                AccessControlStatement.userId,
                                AccessControlStatement.isAdmin)])
    /\ UNCHANGED <<managerRun, handlerVars, routerVars, ssoVars,
                   apiKeyVars, priceVars>>

\* await InteractionModel.findById(interaction.id, user.id, isAdmin).
AccessControlFindById ==
    /\ AccessControlStatement.op = "findById"
    /\ interactionRun' = AccessControlAdvanced(
            [interactionRun EXCEPT
                !.query = [kind    |-> "findById",
                           userId  |-> AccessControlStatement.userId,
                           isAdmin |-> AccessControlStatement.isAdmin],
                !.rows  = InteractionModel_findById(
                                interactionRun.db,
                                interactionRun.interaction,
                                AccessControlStatement.userId,
                                AccessControlStatement.isAdmin)])
    /\ UNCHANGED <<managerRun, handlerVars, routerVars, ssoVars,
                   apiKeyVars, priceVars>>

\* expect(...): the outcome is recorded.
AccessControlExpect ==
    /\ AccessControlStatement.op = "expect"
    /\ interactionRun' = AccessControlAdvanced(
            [interactionRun EXCEPT !.expects =
                Append(@, ExpectHolds(AccessControlStatement, interactionRun))])
    /\ UNCHANGED <<managerRun, handlerVars, routerVars, ssoVars,
                   apiKeyVars, priceVars>>

\* Both files are about to run; no request is handled meanwhile.
SuiteInit ==
    /\ HandlerIdle
    /\ RouterIdle
    /\ SsoIdle
    /\ ApiKeyIdle
    /\ PriceIdle
    /\ managerRun = [test       |-> 1,
                       step       |-> 0,
                       kubeConfig |-> RealKubeConfig,
                       manager    |-> NoManager,
                       expects    |-> <<>>]
    /\ interactionRun = [test        |-> 1,
                           step        |-> 0,
                           db          |-> FreshDatabase,
                           interaction |-> 0,
                           query       |-> NoQuery,
                           rows        |-> <<>>,
                           expects     |-> <<>>]

SuiteNext ==
    \/ ManagerBeforeEach
    \/ ManagerSpyOn
    \/ ManagerConstruct
    \/ ManagerExpectIsEnabled
    \/ ManagerShutdown
    \/ ManagerMockRestore
    \/ AccessControlBeforeEach
    \/ AccessControlMakeUser
    \/ AccessControlMakeAdmin
    \/ AccessControlMakeOrganization
    \/ AccessControlMakeTeam
    \/ AccessControlAddMember
    \/ AccessControlAgentCreate
    \/ AccessControlInteractionCreate
    \/ AccessControlFindAllPaginated
    \/ AccessControlFindById
    \/ AccessControlExpect

SuiteSpec == SuiteInit /\ [][SuiteNext]_vars

----------------------------------------------------------------------------
(* ApiKeyModelModel: linkModelsToApiKey and syncModelsForApiKey, called by  *)
(* two callers at once.  A call advances one SQL statement at a time.  The  *)
(* database is PostgreSQL at its default isolation level (read committed):  *)
(* a statement sees the rows committed when it starts, waits for the        *)
(* transaction holding a row it touches, and the writes of a transaction    *)
(* reach the table at its commit.                                           *)

\* Longest modelIds list passed to a call.
MaxModelIds == 2

\* const BATCH_SIZE = 500, scaled down so that a list spans several batches.
BATCH_SIZE == 1

ApiKeyIds == {"key-a", "key-b"}

ModelIdPool == {"model-1", "model-2"}

\* The modelIds arguments: lists, duplicates allowed.
ModelIdLists == UNION {[1..n -> ModelIdPool] : n \in 0..MaxModelIds}

Callers == {"first", "second"}

\* A caller's call: the method, its arguments, the loop index i, the
\* statement it is at, and the uncommitted writes of its transaction.
\* `synced` remembers the links that the latest syncModelsForApiKey call of
\* another caller committed for the key after this transaction's delete
\* looked at the table.
ApiKeyCall(op, apiKeyId, modelIds, at) ==
    [op |-> op, apiKeyId |-> apiKeyId, modelIds |-> modelIds, i |-> 0,
     at |-> at, targets |-> {}, deleted |-> {}, inserted |-> {},
     synced |-> {}]

\* The caller's transaction has looked at the rows of the key.
Looked(c, apiKeyId) ==
    /\ apiKeyCalls[c].op = "sync"
    /\ apiKeyCalls[c].at \in {"deleting", "insert", "commit"}
    /\ apiKeyCalls[c].apiKeyId = apiKeyId

\* modelIds.slice(i, i + BATCH_SIZE)
Batch(modelIds, i) ==
    SubSeq(modelIds, i + 1, IF i + BATCH_SIZE < Len(modelIds)
                            THEN i + BATCH_SIZE ELSE Len(modelIds))

\* batch.map((modelId) => ({ apiKeyId, modelId })), as a set of rows.
Values(apiKeyId, batch) == {<<apiKeyId, batch[j]>> : j \in 1..Len(batch)}

\* The rows of the API key: where eq(apiKeyModelsTable.apiKeyId, apiKeyId).
RowsOf(table, apiKeyId) == {r \in table : r[1] = apiKeyId}

\* Rows written and not yet committed by the other callers' transactions.
PendingElsewhere(c) ==
    UNION {apiKeyCalls[d].deleted \cup apiKeyCalls[d].inserted :
                d \in Callers \ {c}}

\* An insert that puts its values in the place of the key's rows.
InsertedReplacing(table, values) ==
    values \cup {r \in table : \A v \in values : v[1] # r[1]}

\* insert(...).values(values).onConflictDoNothing(): existing pairs are skipped.
InsertedIgnoringConflicts(table, values) == table \cup values

\* The table after linkModelsToApiKey(apiKeyId, modelIds) ran alone from
\* loop index i to its end, no statement rejected.
RECURSIVE linkModelsToApiKey(_, _, _, _)
linkModelsToApiKey(table, apiKeyId, modelIds, i) ==
    IF i >= Len(modelIds)
    THEN table
    ELSE linkModelsToApiKey(
            InsertedIgnoringConflicts(table,
                Values(apiKeyId, Batch(modelIds, i))),
            apiKeyId, modelIds, i + BATCH_SIZE)

\* No call is in progress: the promise of the last one resolved or rejected,
\* its arguments are gone, and nothing of a transaction is left.
NoApiKeyCall == ApiKeyCall("none", "key-a", <<>>, "idle")

\* The caller's call after a successful insert of its batch: i += BATCH_SIZE,
\* then the next batch, or the end of the loop.
AfterBatch(call, end) ==
    IF call.i + BATCH_SIZE < Len(call.modelIds)
    THEN [call EXCEPT !.i = @ + BATCH_SIZE]
    ELSE IF end = "returned" THEN NoApiKeyCall
         ELSE [call EXCEPT !.i = 0, !.at = end]

\* The call after its statement was rejected: the promise rejects, and the
\* transaction, if any, is rolled back.
Rejected(call) == NoApiKeyCall

ApiKeyInit ==
    /\ HandlerIdle
    /\ RouterIdle
    /\ SsoIdle
    /\ SuiteIdle
    /\ PriceIdle
    /\ apiKeyModelsTable = {}
    /\ apiKeyCalls = [c \in Callers |-> NoApiKeyCall]

\* The caller is between calls.
Free(c) == apiKeyCalls[c] = NoApiKeyCall

\* linkModelsToApiKey(apiKeyId, modelIds) is called: an empty list returns
\* at once.
LinkCall(c) ==
    /\ Free(c)
    /\ \E apiKeyId \in ApiKeyIds, modelIds \in ModelIdLists :
            apiKeyCalls' = [apiKeyCalls EXCEPT ![c] =
                IF Len(modelIds) = 0
                THEN NoApiKeyCall
                ELSE ApiKeyCall("link", apiKeyId, modelIds, "insert")]
    /\ UNCHANGED <<apiKeyModelsTable, handlerVars, routerVars, ssoVars,
                   suiteVars, priceVars>>

\* One batch of linkModelsToApiKey: insert ... onConflictDoNothing, a
\* statement of its own that the database may reject.
LinkInsert(c) ==
    LET call == apiKeyCalls[c]
        rows == Values(call.apiKeyId, Batch(call.modelIds, call.i))
    IN  /\ call.op = "link"
        /\ call.at = "insert"
        /\ rows \cap PendingElsewhere(c) = {}
        /\ \E fails \in BOOLEAN :
            IF fails
            THEN /\ apiKeyCalls' = [apiKeyCalls EXCEPT ![c] = Rejected(call)]
                 /\ UNCHANGED apiKeyModelsTable
            ELSE /\ apiKeyModelsTable' =
                        InsertedIgnoringConflicts(apiKeyModelsTable, rows)
                 /\ apiKeyCalls' = [apiKeyCalls EXCEPT ![c] =
                                        AfterBatch(call, "returned")]
        /\ UNCHANGED <<handlerVars, routerVars, ssoVars, suiteVars, priceVars>>

\* syncModelsForApiKey(apiKeyId, modelIds) is called: db.transaction begins.
SyncCall(c) ==
    /\ Free(c)
    /\ \E apiKeyId \in ApiKeyIds, modelIds \in ModelIdLists :
            apiKeyCalls' = [apiKeyCalls EXCEPT ![c] =
                ApiKeyCall("sync", apiKeyId, modelIds, "delete")]
    /\ UNCHANGED <<apiKeyModelsTable, handlerVars, routerVars, ssoVars,
                   suiteVars, priceVars>>

\* tx.delete(...).where(eq(apiKeyId)) starts: its targets are the rows of the
\* key committed at this moment.
SyncDelete(c) ==
    LET call == apiKeyCalls[c]
    IN  /\ call.op = "sync"
        /\ call.at = "delete"
        /\ apiKeyCalls' = [apiKeyCalls EXCEPT ![c] =
                [call EXCEPT !.at = "deleting",
                             !.targets = RowsOf(apiKeyModelsTable, call.apiKeyId)]]
        /\ UNCHANGED <<apiKeyModelsTable, handlerVars, routerVars, ssoVars,
                       suiteVars, priceVars>>

\* The delete statement ends: it has waited for the transactions holding its
\* targets and deletes those that they left in place.
SyncDeleted(c) ==
    LET call == apiKeyCalls[c]
    IN  /\ call.op = "sync"
        /\ call.at = "deleting"
        /\ call.targets \cap PendingElsewhere(c) = {}
        /\ apiKeyCalls' = [apiKeyCalls EXCEPT ![c] =
                [call EXCEPT !.at = IF Len(call.modelIds) > 0
                                    THEN "insert" ELSE "commit",
                             !.targets = {},
                             !.deleted = call.targets]]
        /\ UNCHANGED <<apiKeyModelsTable, handlerVars, routerVars, ssoVars,
                       suiteVars, priceVars>>

\* The batch cannot be inserted: a pair twice in the batch, a pair this
\* transaction inserted already, or a committed pair it did not delete.
Conflicts(call, table) ==
    LET batch == Batch(call.modelIds, call.i)
        rows  == Values(call.apiKeyId, batch)
    IN  \/ Cardinality(rows) < Len(batch)
        \/ rows \cap call.inserted # {}
        \/ rows \cap (table \ call.deleted) # {}

\* One batch of syncModelsForApiKey: tx.insert(...).values(values).  A
\* rejected insert rejects the callback and the transaction is rolled back.
SyncInsert(c) ==
    LET call == apiKeyCalls[c]
        rows == Values(call.apiKeyId, Batch(call.modelIds, call.i))
    IN  /\ call.op = "sync"
        /\ call.at = "insert"
        /\ rows \cap PendingElsewhere(c) = {}
        /\ \E fails \in IF Conflicts(call, apiKeyModelsTable)
                        THEN {TRUE} ELSE BOOLEAN :
                apiKeyCalls' = [apiKeyCalls EXCEPT ![c] =
                    IF fails
                    THEN Rejected(call)
                    ELSE AfterBatch([call EXCEPT !.inserted = @ \cup rows],
                                    "commit")]
        /\ UNCHANGED <<apiKeyModelsTable, handlerVars, routerVars, ssoVars,
                       suiteVars, priceVars>>

\* The callback returned: the transaction commits.  Statements of other
\* transactions that waited for a row deleted here pass over that row.
SyncCommit(c) ==
    LET call == apiKeyCalls[c]
    IN  /\ call.op = "sync"
        /\ call.at = "commit"
        /\ apiKeyModelsTable' =
                (apiKeyModelsTable \ call.deleted) \cup call.inserted
        /\ apiKeyCalls' =
                [d \in Callers |->
                    IF d = c
                    THEN NoApiKeyCall
                    ELSE [apiKeyCalls[d] EXCEPT
                            !.targets = @ \ call.deleted,
                            !.synced =
                                IF Looked(d, call.apiKeyId)
                                THEN call.inserted ELSE @]]
        /\ UNCHANGED <<handlerVars, routerVars, ssoVars, suiteVars, priceVars>>

ApiKeyNext ==
    \E c \in Callers :
        \/ LinkCall(c)
        \/ LinkInsert(c)
        \/ SyncCall(c)
        \/ SyncDelete(c)
        \/ SyncDeleted(c)
        \/ SyncInsert(c)
        \/ SyncCommit(c)

ApiKeySpec == ApiKeyInit /\ [][ApiKeyNext]_vars

----------------------------------------------------------------------------
(* Two requests that ensure their prices at the same time: lines 404-439 of
   two executions of the handler, sharing the price table. *)

Requesters == {"first", "second"}

\* The request has not selected its models yet.
NoPriceRequest ==
    [at |-> "select", baselineModel |-> RequestedModel,
     model |-> RequestedModel]

\* The price table before the requests: any model may have a custom price.
PriceInit ==
    /\ HandlerIdle
    /\ RouterIdle
    /\ SsoIdle
    /\ SuiteIdle
    /\ ApiKeyIdle
    /\ tokenPriceTable \in [Models -> {Null, Some(CustomPricing)}]
    /\ priceRequests = [r \in Requesters |-> NoPriceRequest]

\* baselineModel = body.model; model = optimizedModel or baselineModel.
PriceSelect(r) ==
    /\ priceRequests[r].at = "select"
    /\ \E baselineModel \in Models, optimized \in {Null} \cup {Some(m) : m \in Models} :
        priceRequests' =
            [priceRequests EXCEPT ![r] =
                [at |-> "baseline", baselineModel |-> baselineModel,
                 model |-> SelectedModel(optimized, baselineModel)]]
    /\ UNCHANGED <<tokenPriceTable, handlerVars, routerVars, ssoVars,
                   suiteVars, apiKeyVars>>

\* await TokenPriceModel.createIfNotExists(baselineModel, ...), then the
\* test whether another model was selected.
PriceEnsureBaseline(r) ==
    /\ priceRequests[r].at = "baseline"
    /\ tokenPriceTable' =
            createIfNotExists(tokenPriceTable, priceRequests[r].baselineModel)
    /\ priceRequests' =
            [priceRequests EXCEPT ![r].at =
                IF priceRequests[r].model # priceRequests[r].baselineModel
                THEN "substitute" ELSE "upstream"]
    /\ UNCHANGED <<handlerVars, routerVars, ssoVars, suiteVars, apiKeyVars>>

\* await TokenPriceModel.createIfNotExists(model, ...).
PriceEnsureSubstitute(r) ==
    /\ priceRequests[r].at = "substitute"
    /\ tokenPriceTable' =
            createIfNotExists(tokenPriceTable, priceRequests[r].model)
    /\ priceRequests' = [priceRequests EXCEPT ![r].at = "upstream"]
    /\ UNCHANGED <<handlerVars, routerVars, ssoVars, suiteVars, apiKeyVars>>

PriceNext ==
    \E r \in Requesters :
        \/ PriceSelect(r)
        \/ PriceEnsureBaseline(r)
        \/ PriceEnsureSubstitute(r)

PriceSpec == PriceInit /\ [][PriceNext]_vars

----------------------------------------------------------------------------
(* Properties of the interaction record and of the relay. *)

\* The upstream call returned: the response head was written for the stream
\* it returned, or the complete response is held.
UpstreamReturned == reply.headWritten \/ response # Null

\* Frames of `written` that carry tool-call data.
ToolCallFramesWritten == {i \in 1..Len(written) : written[i].tool_calls # Null}

\* The chunks of the stream that the relay forwards, in order.
RelayedOf(cs) == SelectSeq(cs, Forwarded)

\* The message is a refusal: role assistant, no tool calls, refusal set.
IsRefusal(m) ==
    /\ m.role = "assistant"
    /\ m.tool_calls = Null
    /\ m.refusal \notin {NullStr, Undef, ""}

\* C1: InteractionModel.create is invoked at most once per request, and
\* exactly once whenever the upstream call returned a response or a stream.
C1_CreateExactlyOnce ==
    /\ Len(records) <= 1
    /\ (pc = "done" /\ UpstreamReturned) => Len(records) = 1

\* The record of a finished stream is built from what was accumulated: its
\* message is the accumulated content, refusal and tool calls (or the
\* refusal that replaced a denied turn), its token counts the captured
\* usage when that is positive and null when none was captured.
RecordFromAccumulated ==
    /\ Len(records) = 1
    /\ LET r == records[1]
       IN  /\ r.response.message \in
                {AccumulatedMessage(accumulatedContent, accumulatedRefusal,
                                    accumulatedToolCalls)}
                \cup (IF toolInvocationRefusal = "deny"
                      THEN {RefusalAssistantMessage} ELSE {})
           /\ tokenUsage = Null =>
                r.inputTokens = Null /\ r.outputTokens = Null
           /\ tokenUsage # Null /\ NumOrZero(tokenUsage[1].input) > 0 =>
                r.inputTokens = tokenUsage[1].input
           /\ tokenUsage # Null /\ NumOrZero(tokenUsage[1].output) > 0 =>
                r.outputTokens = tokenUsage[1].output

\* C2: once the relay loop has been entered, the finally block runs on
\* every exit path (normal end, iterator exception, policy-evaluation
\* exception, failed client write) and the interaction record is eventually
\* created from what was accumulated.
C2_FinallyCreatesRecord ==
    (pc = "relay") ~> (pc = "done" /\ RecordFromAccumulated)

\* The stream broke after two content chunks were relayed: the error was
\* thrown and the record holds the content relayed so far.
C2_Witness ==
    /\ pc = "done"
    /\ thrown = Caught(StreamError)
    /\ accumulatedContent = "ab"
    /\ Len(records) = 1
    /\ records[1].response.message.content = "ab"

\* Every tool-call delta the stream has yielded, in order of arrival.
RECURSIVE DeltasOf(_)
DeltasOf(cs) ==
    IF cs = <<>> THEN <<>>
    ELSE (IF Head(cs).tool_calls = Null THEN <<>> ELSE Head(cs).tool_calls[1])
         \o DeltasOf(Tail(cs))

\* The argument fragments of the deltas with this index, concatenated.
RECURSIVE FragmentsAt(_, _)
FragmentsAt(ds, index) ==
    IF ds = <<>> THEN ""
    ELSE (IF Head(ds).index = index THEN Head(ds).arguments ELSE "")
         \o FragmentsAt(Tail(ds), index)

\* The last non-empty name among the deltas with this index.
RECURSIVE LastNameAt(_, _)
LastNameAt(ds, index) ==
    IF ds = <<>> THEN ""
    ELSE LET later == LastNameAt(Tail(ds), index)
         IN  IF later # "" THEN later
             ELSE IF Head(ds).index = index THEN Head(ds).name ELSE ""

\* C3: while the stream is relayed and until the record is built, the
\* arguments of the assembled call at index i are the in-order
\* concatenation of the argument fragments that arrived for i, and its name
\* is the last non-empty name that arrived for i.
C3_AssembledToolCalls ==
    pc \in {"relay", "emit", "finally"} =>
        LET ds == DeltasOf(chunks)
        IN  /\ \A k \in 1..Len(ds) : ds[k].index + 1 <= Len(accumulatedToolCalls)
            /\ \A i \in 1..Len(accumulatedToolCalls) :
                (\E k \in 1..Len(ds) : ds[k].index = i - 1) =>
                    /\ accumulatedToolCalls[i].arguments = FragmentsAt(ds, i - 1)
                    /\ accumulatedToolCalls[i].name = LastNameAt(ds, i - 1)

\* Three deltas arrived for index 0: the name, then two argument fragments.
C3_Witness ==
    /\ pc = "relay"
    /\ Len(DeltasOf(chunks)) = 3
    /\ Len(accumulatedToolCalls) = 1
    /\ accumulatedToolCalls[1].name = "f"
    /\ accumulatedToolCalls[1].arguments = "{}"

\* C4: when the policy evaluator denies, the assistant message delivered
\* to the client and the one stored in the record have role assistant, no
\* tool calls and a non-null refusal, streaming or not.
C4_DeniedTurnIsRefusal ==
    toolInvocationRefusal = "deny" =>
        /\ \A i \in 1..Len(records) : IsRefusal(records[i].response.message)
        /\ pc = "done" => Len(records) = 1
        /\ reply.response # Null => IsRefusal(reply.response[1].message)
        /\ \A i \in 1..Len(written) : written[i].tool_calls = Null
        /\ (body.stream /\ reply.ended /\ clientConnected) =>
                \E i \in 1..Len(written) : IsRefusal(written[i])

\* A non-streaming response with two tool calls was denied, stored and sent.
C4_Witness ==
    /\ pc = "done"
    /\ ~body.stream
    /\ toolInvocationRefusal = "deny"
    /\ policyCalls # <<>> /\ Len(policyCalls[1]) = 2
    /\ reply.response # Null
    /\ Len(records) = 1

\* C5: no frame that carries tool-call data is written to the client
\* before the policy evaluation of the complete accumulated set has
\* allowed it; after a denial no tool-call data is written or stored.
C5_ToolCallsHeldUntilAllowed ==
    /\ ToolCallFramesWritten # {} =>
        /\ toolInvocationRefusal = "allow"
        /\ policyCalls =
            <<PolicyInput(AccumulatedMessage("", "", accumulatedToolCalls))>>
        /\ \A i \in ToolCallFramesWritten :
            \E j \in 1..Len(accumulatedToolCalls) :
                accumulatedToolCalls[j].id = written[i].tool_calls[1][1].id
    /\ toolInvocationRefusal = "deny" =>
        /\ ToolCallFramesWritten = {}
        /\ \A i \in 1..Len(records) :
            records[i].response.message.tool_calls = Null

\* Two accumulated calls were allowed and written as id and argument chunks.
C5_Witness ==
    /\ pc = "done"
    /\ toolInvocationRefusal = "allow"
    /\ Len(accumulatedToolCalls) = 2
    /\ Cardinality(ToolCallFramesWritten) = 4
    /\ written[Len(written)] = DoneFrame

\* The handler returned right after the limit check.
LimitBlocked == pc = "done" /\ stages = <<"limit">>

\* C6: on a limit violation the handler answers 429 with code
\* token_cost_limit_exceeded: no upstream call, no optimization, no trust
\* evaluation, no record; and the limit check precedes any upstream call.
C6_LimitViolation ==
    /\ LimitBlocked =>
        /\ reply.status = 429
        /\ reply.error # Null
        /\ reply.error[1].code = "token_cost_limit_exceeded"
        /\ upstreamCalls = <<>>
        /\ records = <<>>
        /\ policyCalls = <<>>
        /\ written = <<>>
        /\ model = body.model
        /\ filteredMessages = body.messages
        /\ thrown = Null
    /\ reply.status = 429 => LimitBlocked
    /\ upstreamCalls # <<>> => stages[1] = "limit"

\* A request was answered 429.
C6_Witness ==
    /\ pc = "done"
    /\ reply.status = 429
    /\ resolvedAgent = Some(DefaultAgent)

\* Both token counts of the request are known.
UsageKnown ==
    /\ tokenUsage # Null
    /\ tokenUsage[1].input # Null
    /\ tokenUsage[1].output # Null

\* The cost of the captured token counts at the stored price of model m.
CostAt(m) ==
    Some(toFixed10(tokenUsage[1].input[1] * tokenPrices[m][1].input
                   + tokenUsage[1].output[1] * tokenPrices[m][1].output))

\* C7: in every record baselineCost is the cost of the captured token
\* counts at the price of the requested model (body.model) and cost is
\* their cost at the price of the model sent upstream; they are equal when
\* no substitution occurred and both null while the usage is unknown.
C7_BaselineAndCost ==
    \A i \in 1..Len(records) :
        /\ IF UsageKnown
           THEN /\ records[i].baselineCost = CostAt(body.model)
                /\ records[i].cost = CostAt(records[i].model)
           ELSE /\ records[i].baselineCost = Null
                /\ records[i].cost = Null
        /\ records[i].model = body.model =>
                records[i].cost = records[i].baselineCost

\* A substituted model answered a stream with usage: the two costs differ.
C7_Witness ==
    /\ pc = "done"
    /\ body.stream
    /\ Len(records) = 1
    /\ records[1].model = SubstituteModel
    /\ records[1].baselineCost # Null
    /\ records[1].cost # records[1].baselineCost

\* C8: when a stream that accumulated n >= 1 tool calls is denied, one
\* refusal chunk with finish_reason stop is written after every relayed
\* chunk and before [DONE], no tool-call chunk is written, and the
\* blocked-call count reported is n, the length of the accumulated list.
C8_DeniedStream ==
    (body.stream /\ toolInvocationRefusal = "deny"
        /\ pc \in {"finally", "done"}) =>
        LET n == Len(accumulatedToolCalls)
            last == Len(written)
            relayed == RelayedOf(chunks)
        IN  /\ n >= 1
            /\ ToolCallFramesWritten = {}
            /\ Len(blockedReported) <= 1
            /\ \A i \in 1..Len(blockedReported) : blockedReported[i] = n
            /\ clientConnected =>
                /\ blockedReported = <<n>>
                /\ last >= 2 + Len(relayed)
                /\ written[last] = DoneFrame
                /\ written[last - 1].finish_reason = "stop"
                /\ IsRefusal(written[last - 1])
                /\ written[last - 1].id = "chatcmpl-blocked"
                /\ SubSeq(written, last - 1 - Len(relayed), last - 2) = relayed
                /\ Cardinality({i \in 1..last :
                                    written[i].id = "chatcmpl-blocked"}) = 1
                /\ Cardinality({i \in 1..last : written[i] = DoneFrame}) = 1

\* Two calls were accumulated after a relayed chunk, and denied.
C8_Witness ==
    /\ pc = "done"
    /\ body.stream
    /\ clientConnected
    /\ toolInvocationRefusal = "deny"
    /\ ~HasHole(accumulatedToolCalls)
    /\ blockedReported = <<2>>
    /\ Len(RelayedOf(chunks)) = 1
    /\ Len(written) = 3

\* The call to chat.completions.create rejected.
CallFailed ==
    /\ pc = "done"
    /\ upstreamCalls # <<>>
    /\ ~UpstreamReturned

\* The stream failed at its first iteration: no chunk, no policy evaluation.
FirstIterationFailed ==
    /\ pc = "done"
    /\ reply.headWritten
    /\ chunks = <<>>
    /\ policyCalls = <<>>

\* C9 as stated: when the upstream call fails before any event is seen
\* (create rejects, or the stream fails before its first chunk), no
\* interaction record is created and the error propagates.
C9_NoRecordWithoutEvent ==
    (CallFailed \/ FirstIterationFailed) =>
        /\ records = <<>>
        /\ thrown # Null

\* C9: when chat.completions.create rejects, the relay is never entered,
\* no record is created and the error is thrown as an ApiError; when the
\* stream fails before its first chunk the error is thrown as well, but the
\* finally block has created one record, with an empty message.
C9_FailureBeforeAnyEvent ==
    /\ CallFailed =>
        /\ records = <<>>
        /\ thrown # Null
        /\ \E e \in UpstreamErrors : thrown = Some(ApiError(e))
        /\ reply = NoReply
        /\ chunks = <<>>
        /\ policyCalls = <<>>
        /\ \A i \in 1..Len(written) :
                written[i] \in {BannerFrame, ProgressFrame}
    /\ FirstIterationFailed =>
        /\ thrown # Null
        /\ Len(records) = 1
        /\ records[1].response.id = "chatcmpl-unknown"
        /\ records[1].response.message = AccumulatedMessage("", "", <<>>)

\* The upstream answered 503 to create: the ApiError carries the status.
C9_Witness ==
    /\ CallFailed
    /\ body.stream
    /\ thrown = Some([statusCode |-> 503, message |-> "upstream unavailable"])

\* The upstream reported no usage for this request.
NoUsage ==
    IF body.stream THEN \A i \in 1..Len(chunks) : chunks[i].usage = Null
    ELSE response # Null /\ response[1].usage = Null

\* C10: when the upstream reports no usage the record is still created,
\* with inputTokens, outputTokens, cost and baselineCost all null.
C10_RecordWithoutUsage ==
    (pc = "done" /\ NoUsage
        /\ (reply.headWritten \/ toolInvocationRefusal # "pending")) =>
        /\ Len(records) = 1
        /\ records[1].inputTokens = Null
        /\ records[1].outputTokens = Null
        /\ records[1].cost = Null
        /\ records[1].baselineCost = Null

\* A stream of three chunks without usage ended and was recorded.
C10_Witness ==
    /\ pc = "done"
    /\ body.stream
    /\ Len(chunks) = 3
    /\ NoUsage
    /\ thrown = Null
    /\ Len(records) = 1
    /\ records[1].cost = Null

\* The streaming branch reached return reply with the client connected.
StreamFinishedNormally ==
    /\ body.stream
    /\ reply.ended
    /\ clientConnected

\* C11: on a normally finished streaming request the written frames end
\* with exactly one [DONE] frame, after the relayed chunks and the refusal
\* chunk or the re-emitted tool-call chunks; no frame follows [DONE].
C11_DoneFrameLast ==
    /\ \A i \in 1..Len(written) : written[i] = DoneFrame => i = Len(written)
    /\ StreamFinishedNormally =>
        LET last == Len(written)
            tail == IF Len(accumulatedToolCalls) = 0 THEN <<>>
                    ELSE IF toolInvocationRefusal = "deny" THEN <<RefusalFrame>>
                    ELSE ToolCallFrames(chunks, accumulatedToolCalls)
            frames == RelayedOf(chunks) \o tail
        IN  /\ last >= 1 + Len(frames)
            /\ written[last] = DoneFrame
            /\ SubSeq(written, last - Len(frames), last - 1) = frames
            /\ \A i \in 1..(last - 1 - Len(frames)) :
                    written[i] \in {BannerFrame, ProgressFrame}

\* A relayed chunk, then one allowed call re-emitted as two chunks, then [DONE].
C11_Witness ==
    /\ pc = "done"
    /\ StreamFinishedNormally
    /\ toolInvocationRefusal = "allow"
    /\ Len(RelayedOf(chunks)) = 1
    /\ Cardinality(ToolCallFramesWritten) = 2
    /\ Len(written) = 4

\* The scenario of C12: non-streaming, no tools, no rule matched, allowed.
PlainScenario ==
    /\ pc = "done"
    /\ ~body.stream
    /\ body.tools = <<>>
    /\ optimizedModel = Null
    /\ toolInvocationRefusal = "allow"

\* C12: a non-streaming request with no tools, no optimization-rule match
\* and an allow verdict is sent upstream with the requested model; the
\* response sent to the client is the upstream response unchanged, and the
\* record has model = the request's model and baselineCost = cost.
C12_PlainRequestUnchanged ==
    PlainScenario =>
        /\ Len(upstreamCalls) = 1
        /\ upstreamCalls[1].model = body.model
        /\ response # Null /\ response[1] \in Responses
        /\ Len(records) = 1
        /\ records[1].model = body.model
        /\ records[1].baselineCost = records[1].cost
        /\ records[1].response = response[1]
        /\ thrown = Null =>
            /\ reply.status = 200
            /\ reply.response = response

\* The plain scenario with usage reported: the reply was sent and priced.
C12_Witness ==
    /\ PlainScenario
    /\ reply.response # Null
    /\ Len(records) = 1
    /\ records[1].cost # Null

\* C14: a policy denial is never surfaced as an error: whatever is thrown
\* after a denial comes from the record's persistence or from a write to a
\* client that went away; otherwise the request ends with its success
\* outcome carrying the refusal (a 200 completion, or a stream that ends
\* with the refusal chunk and [DONE]), and the record is created.
C14_DenialIsNotAnError ==
    (pc = "done" /\ toolInvocationRefusal = "deny") =>
        /\ Len(records) = 1
        /\ IsRefusal(records[1].response.message)
        /\ thrown \in {Null, Caught(PersistError), Caught(WriteError)}
        /\ thrown = Caught(WriteError) => body.stream /\ ~clientConnected
        /\ thrown = Null =>
            IF body.stream
            THEN /\ reply.ended
                 /\ blockedReported = <<Len(accumulatedToolCalls)>>
                 /\ clientConnected =>
                        /\ Len(written) >= 2
                        /\ written[Len(written)] = DoneFrame
                        /\ IsRefusal(written[Len(written) - 1])
            ELSE /\ reply.status = 200
                 /\ reply.response # Null
                 /\ IsRefusal(reply.response[1].message)
                 /\ reply.response[1].finish_reason = "stop"

\* A denied stream ended without an exception, the refusal as last chunk.
C14_Witness ==
    /\ pc = "done"
    /\ body.stream
    /\ toolInvocationRefusal = "deny"
    /\ thrown = Null
    /\ clientConnected
    /\ Len(written) = 2
    /\ Len(records) = 1

\* C15: an explicit agentId that resolves to no agent ends the request
\* with 404 not_found and nothing else: no default agent is created, no
\* limit check, trust evaluation, upstream call or record.
C15_UnknownAgent ==
    /\ reply.status = 404 <=> (pc = "done" /\ resolvedAgent = Null)
    /\ reply.status = 404 =>
        /\ reply.error # Null
        /\ reply.error[1].type = "not_found"
        /\ agents = {KnownAgent}
        /\ stages = <<>>
        /\ upstreamCalls = <<>>
        /\ policyCalls = <<>>
        /\ records = <<>>
        /\ written = <<>>
        /\ thrown = Null
        /\ model = body.model
        /\ filteredMessages = body.messages

\* A streaming request named an agent that does not exist.
C15_Witness ==
    /\ pc = "done"
    /\ body.stream
    /\ reply.status = 404
    /\ resolvedAgent = Null

\* Every error the handler's try block may see.
HandlerErrors ==
    UpstreamErrors \cup
    {StreamError, PolicyError, WriteError, PersistError, HoleError}

\* C16: the error thrown to the caller carries the status code of the
\* error that was raised if it has one, and 500 otherwise.
C16_StatusPassedThrough ==
    thrown # Null =>
        \E e \in HandlerErrors :
            /\ thrown[1].message = e.message
            /\ thrown[1].statusCode =
                    (IF e.status = NoStatus THEN 500 ELSE e.status)

\* An error without a status (policy evaluation failed) surfaced as 500.
C16_Witness ==
    /\ pc = "done"
    /\ ~body.stream
    /\ thrown = Some([statusCode |-> 500,
                      message |-> "policy evaluation failed"])

\* C17: the upstream completion call is issued at most once per request;
\* a request that called the upstream and did not complete its reply has
\* thrown the failure to the caller.
C17_NoRetry ==
    /\ Len(upstreamCalls) <= 1
    /\ (pc = "done" /\ upstreamCalls # <<>> /\ ~reply.ended) =>
        /\ thrown # Null
        /\ Len(upstreamCalls) = 1

\* The stream broke after one chunk: one upstream call, the error thrown.
C17_Witness ==
    /\ pc = "done"
    /\ Len(chunks) = 1
    /\ thrown = Caught(StreamError)
    /\ Len(upstreamCalls) = 1

\* The rules of the table that apply to the request: enabled, same
\* tool-usage flag, and scoped to the organization, the agent or one of
\* the agent's teams.
ApplicableRules ==
    {r \in optimizationRules :
        /\ r.enabled
        /\ r.hasTools = (Len(body.tools) > 0)
        /\ \/ r.entityType = "organization"
           \/ r.entityType = "agent" /\ r.entityId = resolvedAgent[1]
           \/ r.entityType = "team" /\ r.entityId \in TeamsOf(resolvedAgent[1])}

\* C13: among the enabled rules whose scope and tool-usage condition match,
\* the router answers the target of the rule with the greatest priority,
\* the most recently created one among equals, and that model is sent
\* upstream; with no matching rule it answers none and the requested
\* model is sent upstream.
C13_RouterChoice ==
    pc = "trust" =>
        IF ApplicableRules = {}
        THEN /\ optimizedModel = Null
             /\ UpstreamRequest.model = body.model
        ELSE \E w \in ApplicableRules :
                /\ \A q \in ApplicableRules :
                    \/ q.priority < w.priority
                    \/ q.priority = w.priority /\ q.createdAt <= w.createdAt
                /\ optimizedModel = Some(w.targetModel)
                /\ UpstreamRequest.model = w.targetModel

\* The agent-scoped priority-10 rule won over the priority-0 catch-all.
C13_Witness ==
    /\ pc = "trust"
    /\ body.tools = <<>>
    /\ resolvedAgent = Some(KnownAgent)
    /\ optimizationRules =
               {Rule("organization", "org", FALSE, SubstituteModel, 0, TRUE, 1),
                Rule("agent", KnownAgent, FALSE, OtherModel, 10, TRUE, 2)}
    /\ optimizedModel = Some(OtherModel)

\* The table holds a provider with this id that belongs to another
\* organization than the caller's.
BelongsToAnother(id, c) ==
    \E r \in ssoProvidersTable : r.id = id /\ r.organizationId # c

\* What the calls that have returned gave back.
SsoResultsIsolated ==
    \A c \in Organizations :
        LET call == ssoCalls[c]
        IN  call.at = "returned" =>
            /\ call.op = "findAll" =>
                \A p \in call.result[1] : p.organizationId = c
            /\ (call.op \in {"findById", "update"} /\ call.result # Null) =>
                /\ call.result[1].organizationId = c
                /\ call.result[1].id = call.id
            /\ (call.op \in {"findById", "update"}
                    /\ BelongsToAnother(call.id, c)) => call.result = Null
            /\ (call.op = "delete" /\ BelongsToAnother(call.id, c)) =>
                call.result = Some(FALSE)

\* A step of a caller's call leaves every row of another organization as
\* it is.
SsoRowsOfOthersKept ==
    \A c \in Organizations :
        ssoCalls'[c] # ssoCalls[c] =>
            \A r \in ssoProvidersTable :
                r.organizationId # c => r \in ssoProvidersTable'

\* C20: findAll, findById, update and delete act only on providers of the
\* organizationId the caller passes: for a provider of another
\* organization findById and update return null and delete returns false,
\* findAll never returns it, and its row is left unchanged.
C20_OrganizationIsolation ==
    []SsoResultsIsolated /\ [][SsoRowsOfOthersKept]_vars

\* org-a asked to update and org-b to delete the other's provider: both
\* were refused and both rows are as they were seeded.
C20_Witness ==
    /\ ssoCalls["org-a"] =
            [op |-> "update", id |-> 2, at |-> "returned", result |-> Null]
    /\ ssoCalls["org-b"] =
            [op |-> "delete", id |-> 1, at |-> "returned",
             result |-> Some(FALSE)]
    /\ ssoProvidersTable = SeedProviders

\* The manager was constructed with a configuration that loaded, and was
\* not shut down since.
ManagerUsable ==
    /\ managerRun.manager.configLoaded
    /\ ~managerRun.manager.shutDown

\* Every expect statement executed so far in the manager's tests was met.
ManagerExpectationsMet ==
    \A i \in 1..Len(managerRun.expects) : managerRun.expects[i]

AgentSharedWith(db, row, userId) ==
    \E a \in db.agents :
        /\ a.id = row.agentId
        /\ \E t \in a.teams : <<t, userId>> \in db.members

\* Every expect statement executed so far in the access-control tests was met.
AccessControlExpectationsMet ==
    \A i \in 1..Len(interactionRun.expects) : interactionRun.expects[i]

SyncCommits(c) ==
    /\ apiKeyCalls[c].op = "sync"
    /\ apiKeyCalls[c].at = "commit"
    /\ apiKeyCalls'[c] = NoApiKeyCall

\* The step is the rejection of the caller's syncModelsForApiKey.
SyncThrows(c) ==
    /\ apiKeyCalls[c].op = "sync"
    /\ apiKeyCalls[c].at = "insert"
    /\ apiKeyCalls'[c] = NoApiKeyCall

\* The links of the key include the modelIds the caller passed, and when
\* it passed any, no link is left of those that another caller's
\* syncModelsForApiKey committed while the transaction ran.
SyncedExactly(c) ==
    LET links  == RowsOf(apiKeyModelsTable', apiKeyCalls[c].apiKeyId)
        wanted == Values(apiKeyCalls[c].apiKeyId, apiKeyCalls[c].modelIds)
    IN  /\ wanted \subseteq links
        /\ wanted # {} => links \cap apiKeyCalls[c].synced \subseteq wanted

\* The links of every other key are what they were.
OtherKeysKept(c) ==
    apiKeyModelsTable' \ RowsOf(apiKeyModelsTable', apiKeyCalls[c].apiKeyId) =
        apiKeyModelsTable \ RowsOf(apiKeyModelsTable, apiKeyCalls[c].apiKeyId)

\* C21: when syncModelsForApiKey(k, ids) completes, the models linked to k
\* are ids and no others: each of ids is linked, and none of the links that
\* another syncModelsForApiKey(k, ...) committed meanwhile is left beside
\* them (links that linkModelsToApiKey added meanwhile, and the outcome for
\* an empty ids, which equals that of running first, are not held against
\* the call); the links of every other key are unchanged;
\* when an insert of the transaction fails, the previous links of k are
\* intact.
C21_SyncReplacesLinks ==
    [][\A c \in Callers :
            /\ SyncCommits(c) => SyncedExactly(c) /\ OtherKeysKept(c)
            /\ SyncThrows(c) => apiKeyModelsTable' = apiKeyModelsTable]_vars

\* The step is a statement of the caller's linkModelsToApiKey.
LinkStatement(c) ==
    /\ apiKeyCalls[c].op = "link"
    /\ apiKeyCalls'[c] # apiKeyCalls[c]

\* The statement adds at most the pairs of its batch, and removes nothing.
LinkAdditive(c) ==
    LET rows == Values(apiKeyCalls[c].apiKeyId,
                       Batch(apiKeyCalls[c].modelIds, apiKeyCalls[c].i))
    IN  /\ apiKeyModelsTable \subseteq apiKeyModelsTable'
        /\ apiKeyModelsTable' \subseteq apiKeyModelsTable \cup rows
        /\ rows \subseteq apiKeyModelsTable =>
                apiKeyModelsTable' = apiKeyModelsTable

\* From the table as it is, a whole call with the arguments of a call in
\* progress keeps every link, adds exactly the missing pairs of its key and
\* its list, and adds nothing when repeated; a call with an empty list
\* leaves the table as it is.
LinkIdempotent ==
    /\ \A c \in Callers :
        apiKeyCalls[c].op = "link" =>
            LET call == apiKeyCalls[c]
                once == linkModelsToApiKey(apiKeyModelsTable, call.apiKeyId,
                                           call.modelIds, 0)
            IN  /\ apiKeyModelsTable \subseteq once
                /\ once = apiKeyModelsTable
                            \cup Values(call.apiKeyId, call.modelIds)
                /\ linkModelsToApiKey(once, call.apiKeyId, call.modelIds, 0)
                        = once
    /\ \A apiKeyId \in ApiKeyIds :
        linkModelsToApiKey(apiKeyModelsTable, apiKeyId, <<>>, 0)
            = apiKeyModelsTable

\* C22: linkModelsToApiKey(k, ids) is additive and idempotent: it never
\* removes an existing link, it ignores the pairs that exist already, calling
\* it twice with the same arguments yields the link set of calling it once,
\* and an empty ids changes nothing.
C22_LinkAdditiveIdempotent ==
    /\ []LinkIdempotent
    /\ [][\A c \in Callers : LinkStatement(c) => LinkAdditive(c)]_vars

\* A call has inserted a batch, the pairs of its next batch exist already,
\* and the key has a link that is not in the call's list.
C22_Witness ==
    \E c \in Callers :
        LET call == apiKeyCalls[c]
        IN  /\ call.op = "link"
            /\ call.i > 0
            /\ Values(call.apiKeyId, Batch(call.modelIds, call.i))
                    \subseteq apiKeyModelsTable
            /\ RowsOf(apiKeyModelsTable, call.apiKeyId)
                    \ Values(call.apiKeyId, call.modelIds) # {}

----------------------------------------------------------------------------
(* Finalization of the stream: what the record holds and what ran before. *)

\* The record's message carries tool calls.
CarriesToolCalls(record) == record.response.message.tool_calls # Null

\* evaluatePolicies was called with the mapped calls of the record's message.
EvaluatedFor(record) ==
    \E j \in 1..Len(policyCalls) :
        policyCalls[j] = PolicyInput(record.response.message)

\* C23: on every exit path of the streaming loop, abort included, no
\* interaction record whose assistant message carries tool calls is persisted
\* unless the policy evaluator was run on exactly those calls.
C23_PolicyBeforePersist ==
    \A i \in 1..Len(records) :
        CarriesToolCalls(records[i]) => EvaluatedFor(records[i])

\* The frame is an upstream chunk the relay loop wrote as it came.
IsRelayedFrame(frame) == frame.id = UpstreamId /\ frame.tool_calls = Null

\* Position in `chunks` of the upstream chunk that the relayed frame at
\* position p of `written` is: the n-th relayed frame is the n-th
\* forwarded chunk.
ArrivalOfRelayed(p) ==
    LET n == Cardinality({i \in 1..p : IsRelayedFrame(written[i])})
    IN  CHOOSE k \in 1..Len(chunks) :
            /\ Forwarded(chunks[k])
            /\ Cardinality({j \in 1..k : Forwarded(chunks[j])}) = n

\* Positions in `chunks` of the chunks that carried a delta for this index.
ArrivalsAt(index) ==
    {k \in 1..Len(chunks) :
        /\ chunks[k].tool_calls # Null
        /\ \E j \in 1..Len(chunks[k].tool_calls[1]) :
                chunks[k].tool_calls[1][j].index = index}

\* C24: client-visible writes occur in upstream arrival order with no
\* reordering: the relayed chunks are written in the order they arrived, and
\* tool-call data is not written after a content chunk or the terminal chunk
\* that arrived later than every delta of that call.
C24_WritesInArrivalOrder ==
    /\ \E n \in 0..Len(RelayedOf(chunks)) :
            SelectSeq(written, IsRelayedFrame) = SubSeq(RelayedOf(chunks), 1, n)
    /\ \A q \in ToolCallFramesWritten :
        \A p \in 1..(q - 1) :
            IsRelayedFrame(written[p]) =>
                \E k \in ArrivalsAt(written[q].tool_calls[1][1].index) :
                    ArrivalOfRelayed(p) < k

----------------------------------------------------------------------------
(* The order of the stages of one request. *)

\* The stages in the order the handler's statements have them.
StageOrder ==
    <<"limit", "optimizer", "pricing", "trust", "upstream", "policy",
      "accounting">>

\* The order the control-flow sentence gives: trust evaluation first.
StageOrderTrustFirst ==
    <<"limit", "trust", "optimizer", "pricing", "upstream", "policy",
      "accounting">>

StageRank(order, stage) == CHOOSE r \in 1..Len(order) : order[r] = stage

\* The stages entered so far were entered in this order, none twice.
StagesFollow(order) ==
    \A i, j \in 1..Len(stages) :
        i < j => StageRank(order, stages[i]) < StageRank(order, stages[j])

----------------------------------------------------------------------------
(* The states of the relay. *)

\* A chunk with a non-null finish_reason has arrived.
TerminalChunkObserved ==
    \E k \in 1..Len(chunks) : Truthy(chunks[k].finish_reason)

\* The handler took the stream for finished: the loop was left at its end,
\* assistantMessage was assigned and evaluatePolicies called.
TakenForFinished == body.stream /\ policyCalls # <<>>

\* C26: the relay goes INIT -> STREAMING -> {NORMAL_FINISH | ABORTED} ->
\* FINALIZING -> DONE, and NORMAL_FINISH is reached only if a terminal chunk
\* (non-null finish_reason) was observed: a stream that simply ends without
\* one, or a consumer that went away, leads to ABORTED.
C26_NormalFinishNeedsTerminalChunk ==
    TakenForFinished => TerminalChunkObserved /\ clientConnected

----------------------------------------------------------------------------
(* What the record says was sent and was answered. *)

\* C27: the record's processedRequest equals the request actually
\* transmitted upstream: the same model (the substitute when one was
\* selected) and the same message list (after sanitization and compression).
C27_ProcessedRequestIsSent ==
    \A i \in 1..Len(records) :
        /\ Len(upstreamCalls) = 1
        /\ records[i].processedRequest.messages = upstreamCalls[1].messages
        /\ records[i].processedRequest.model = upstreamCalls[1].model

\* The frames that convey the turn: every frame but the trust evaluator's
\* notifications and [DONE].
TurnFrames ==
    SelectSeq(written,
              LAMBDA f : f.id \notin {BannerFrame.id, DoneFrame.id})

\* The text a client assembles from the deltas of the frames: the
\* fragments of content (or of refusal) in the order they were written.
RECURSIVE ConveyedText(_, _)
ConveyedText(frames, field) ==
    IF frames = <<>> THEN ""
    ELSE (IF Truthy(Head(frames)[field]) THEN Head(frames)[field] ELSE "")
         \o ConveyedText(Tail(frames), field)

\* The finish reasons the frames carry.
ConveyedFinishReasons ==
    {TurnFrames[i].finish_reason : i \in 1..Len(TurnFrames)} \ {NullStr}

\* The ids of the tool calls the frames carry, and of those of a message.
ConveyedToolCallIds ==
    {written[i].tool_calls[1][1].id : i \in ToolCallFramesWritten}

ToolCallIds(message) ==
    IF message.tool_calls = Null THEN {}
    ELSE {message.tool_calls[1][i].id : i \in 1..Len(message.tool_calls[1])}

\* The stream was delivered to its end to a client that stayed, and the
\* record was stored.
StreamDelivered ==
    /\ body.stream
    /\ pc = "done"
    /\ thrown = Null
    /\ clientConnected
    /\ reply.ended

\* C28: the response stored in the interaction record equals the response
\* delivered to the client after policy: the same assistant content,
\* refusal, tool calls and finish reason as the client received (streaming:
\* as conveyed by the frames written; non-streaming: the object sent).
C28_RecordIsDelivered ==
    /\ reply.response # Null =>
        \A i \in 1..Len(records) : records[i].response = reply.response[1]
    /\ StreamDelivered =>
        \A i \in 1..Len(records) :
            LET stored == records[i].response
            IN  /\ stored.message.content
                        = OrNull(ConveyedText(TurnFrames, "content"))
                /\ stored.message.refusal
                        = OrNull(ConveyedText(TurnFrames, "refusal"))
                /\ ToolCallIds(stored.message) = ConveyedToolCallIds
                /\ ConveyedFinishReasons \subseteq {stored.finish_reason}

----------------------------------------------------------------------------
(* Finalization of an aborted stream. *)

\* finally runs with no assistantMessage assigned: the stream was aborted.
FinalizesAborted == pc = "finally" /\ assistantMessage = Null /\ pc' = "done"

\* The call as the record holds it: parsed arguments when the accumulated
\* string parses, the raw string when it does not.
StoredAs(stored, call) ==
    /\ stored.id = call.id
    /\ stored.name = call.name
    /\ stored.arguments = IF JsonParses(call.arguments) THEN ParsedObject
                          ELSE call.arguments

\* C29: when an aborted stream is finalized, malformed tool-call argument
\* JSON never fails the request: each accumulated call whose arguments parse
\* has them replaced by the parsed value, each call whose arguments do not
\* parse keeps the raw string, and the record is created in both cases; the
\* error thrown is the one that aborted the stream (or the create's own).
C29_MalformedArgumentsTolerated ==
    [][FinalizesAborted =>
        /\ Len(records') = Len(records) + 1
        /\ LET message == records'[Len(records')].response.message
           IN  IF accumulatedToolCalls = <<>> THEN message.tool_calls = Null
               ELSE /\ message.tool_calls # Null
                    /\ Len(message.tool_calls[1]) = Len(accumulatedToolCalls)
                    /\ \A i \in 1..Len(accumulatedToolCalls) :
                        accumulatedToolCalls[i] # Hole =>
                            StoredAs(message.tool_calls[1][i],
                                     accumulatedToolCalls[i])
        /\ thrown' \in {Caught(pendingError[1]), Caught(PersistError)}]_vars

\* An aborted stream was finalized with two accumulated calls: the record
\* holds the parsed arguments of one and the raw string of the other.
C29_Witness ==
    /\ pc = "done"
    /\ policyCalls = <<>>
    /\ Len(records) = 1
    /\ LET message == records[1].response.message
       IN  /\ message.tool_calls # Null
           /\ Len(message.tool_calls[1]) = 2
           /\ message.tool_calls[1][1].arguments = ParsedObject
           /\ message.tool_calls[1][2].arguments = "{"

----------------------------------------------------------------------------
(* What a failure tells the client. *)

\* C30: the error surfaced to the client for an upstream or adaptor failure
\* is a generic message that does not depend on the internal exception's
\* message: any two failures with the same status code produce the same
\* client-visible error.
C30_ErrorMessageGeneric ==
    thrown # Null =>
        \A e \in HandlerErrors :
            ApiError(e).statusCode = thrown[1].statusCode =>
                ApiError(e) = thrown[1]

----------------------------------------------------------------------------
(* The trust evaluator's notifications. *)

\* The frame is a notification of the trust evaluator.
IsNotification(frame) == frame \in {BannerFrame, ProgressFrame}

\* C31: banner and progress notifications of the trust evaluator are written
\* only for streaming requests, every one of them before the upstream call
\* is issued and so before any primary-stream chunk, and each carries the
\* placeholder id chatcmpl-sanitizing, distinct from the ids of the
\* primary-stream chunks; a non-streaming request never receives one.
C31_NotificationsBeforeUpstream ==
    /\ ~body.stream => written = <<>>
    /\ upstreamCalls = <<>> =>
        \A i \in 1..Len(written) : IsNotification(written[i])
    /\ \A i \in 1..Len(written) :
        /\ IsNotification(written[i]) =>
            /\ written[i].id = "chatcmpl-sanitizing"
            /\ \A j \in 1..i : IsNotification(written[j])
        /\ ~IsNotification(written[i]) =>
            /\ written[i].id # "chatcmpl-sanitizing"
            /\ upstreamCalls # <<>>
    /\ \A k \in 1..Len(chunks) : chunks[k].id # "chatcmpl-sanitizing"

\* A streaming request got the banner and a progress notification, and then
\* the first chunk of the primary stream.
C31_Witness ==
    /\ body.stream
    /\ Len(written) = 3
    /\ written[1] = BannerFrame
    /\ written[2] = ProgressFrame
    /\ written[3] = chunks[1]

----------------------------------------------------------------------------
(* The request as received and the request as sent. *)

\* C32: applying the trust verdict's tool-result updates (and the optional
\* compression) produces a new message list and leaves the request's own
\* messages as they were: the record's `request` is the request as received,
\* while the upstream call and processedRequest carry the filtered list.
C32_OriginalMessagesKept ==
    /\ body \in Requests
    /\ \A i \in 1..Len(records) :
        /\ records[i].request = body
        /\ records[i].processedRequest.messages = filteredMessages
    /\ \A i \in 1..Len(upstreamCalls) :
        upstreamCalls[i].messages = filteredMessages

\* A streamed request whose tool result was sanitized and then compressed:
\* the record holds both lists.
C32_Witness ==
    /\ body.stream
    /\ Len(records) = 1
    /\ records[1].request.messages = Messages
    /\ records[1].processedRequest.messages[2].content
            = "toon:sanitized tool result"
    /\ upstreamCalls[1].messages = records[1].processedRequest.messages

----------------------------------------------------------------------------
(* Price records under concurrent requests. *)

\* The request is about to call the upstream.
BeforeUpstream(r) == priceRequests[r].at = "upstream"

\* Every model has at most one price row.
OnePriceRowEach == \A m \in Models : Len(tokenPriceTable[m]) <= 1

\* A request that reached the upstream call has a price row for its
\* baseline model and for the model it sends.
PricesEnsured ==
    \A r \in Requesters :
        BeforeUpstream(r) =>
            /\ tokenPriceTable[priceRequests[r].baselineModel] # Null
            /\ tokenPriceTable[priceRequests[r].model] # Null

\* A row that exists is left as it is, and a row that appears holds the
\* provider's default price.
PriceRowsKept ==
    \A m \in Models :
        IF tokenPriceTable[m] # Null
        THEN tokenPriceTable'[m] = tokenPriceTable[m]
        ELSE tokenPriceTable'[m] \in {Null, Some(DefaultPricing(m))}

\* C33: before the upstream call a price record is ensured for the baseline
\* model and, when another model was selected, for the substitute; ensuring
\* is idempotent and never overwrites an existing custom price, also when two
\* concurrent requests ensure the same newly seen model (at most one insert,
\* no overwrite).
C33_PricesEnsuredOnce ==
    /\ [](OnePriceRowEach /\ PricesEnsured)
    /\ [][PriceRowsKept]_vars

\* Both requests ensured the same newly seen substitute, and both have a
\* baseline with a custom price: one default row, the custom rows kept.
C33_Witness ==
    /\ \A r \in Requesters : BeforeUpstream(r)
    /\ priceRequests["first"].model = priceRequests["second"].model
    /\ \A r \in Requesters :
        /\ priceRequests[r].model # priceRequests[r].baselineModel
        /\ tokenPriceTable[priceRequests[r].baselineModel]
                = Some(CustomPricing)
    /\ tokenPriceTable[priceRequests["first"].model]
            = Some(DefaultPricing(priceRequests["first"].model))

----------------------------------------------------------------------------
(* The assembled tool calls. *)

\* C34: in the assembled assistant message every index position maps to
\* exactly one call record: every position below the list's length holds a
\* record, whatever order or gaps the indices arrive with, a record holds
\* what arrived for its index and nothing else, and all call ids within the
\* message are distinct.
C34_OneCallPerIndex ==
    (assistantMessage # Null /\ assistantMessage[1].tool_calls # Null) =>
        LET calls == assistantMessage[1].tool_calls[1]
        IN  /\ \A i \in 1..Len(calls) : calls[i] # Hole
            /\ \A i, j \in 1..Len(calls) :
                i # j => calls[i].id # calls[j].id

----------------------------------------------------------------------------
(* A record that cannot be persisted. *)

\* InteractionModel.create rejected.
PersistFailed == thrown = Caught(PersistError)

\* C35: a failure to persist the interaction record is reported but never
\* changes what the client was given: in the streaming path create is only
\* called after every frame of a finished stream, [DONE] included, was
\* written and the stream ended, and in the non-streaming path a persistence
\* failure does not withhold or replace the completion response.
C35_PersistFailureKeepsReply ==
    /\ (body.stream /\ records # <<>> /\ reply.ended /\ clientConnected) =>
            written[Len(written)] = DoneFrame
    /\ (~body.stream /\ records # <<>> /\ pc = "done") =>
            reply.response = response

----------------------------------------------------------------------------
(* The usage that is accounted. *)

\* The usage of the last chunk that carries one, as token counts.
RECURSIVE LastUsage(_)
LastUsage(cs) ==
    IF cs = <<>> THEN Null
    ELSE IF cs[Len(cs)].usage # Null
         THEN Some(getUsageTokens(cs[Len(cs)].usage[1]))
         ELSE LastUsage(SubSeq(cs, 1, Len(cs) - 1))

\* C36: the token usage used for accounting is that of the last
\* usage-bearing chunk received: each later usage-bearing chunk overwrites
\* the earlier value, and chunks without usage never reset or change it.
C36_LastUsageWins ==
    body.stream =>
        /\ tokenUsage = LastUsage(chunks)
        /\ \A i \in 1..Len(records) :
            /\ (records[i].inputTokens # Null) =>
                    /\ LastUsage(chunks) # Null
                    /\ records[i].inputTokens = LastUsage(chunks)[1].input
            /\ (records[i].outputTokens # Null) =>
                    /\ LastUsage(chunks) # Null
                    /\ records[i].outputTokens = LastUsage(chunks)[1].output

\* Two chunks with different usage arrived, then a chunk without usage: the
\* record holds the counts of the second.
C36_Witness ==
    /\ Len(chunks) = 3
    /\ chunks[1].usage = Some([prompt_tokens |-> 0, completion_tokens |-> 0])
    /\ chunks[2].usage = Some([prompt_tokens |-> 2, completion_tokens |-> 1])
    /\ chunks[3].usage = Null
    /\ Len(records) = 1
    /\ records[1].inputTokens = Some(2)
    /\ records[1].outputTokens = Some(1)

----------------------------------------------------------------------------
(* What is relayed and what is accumulated. *)

\* The chunks the loop has gone through: a chunk whose write threw was
\* left before its fragments were appended.
ChunksProcessed ==
    IF pendingError = Some(WriteError) /\ policyCalls = <<>>
    THEN SubSeq(chunks, 1, Len(chunks) - 1)
    ELSE chunks

\* The chunks without a tool-call delta, and those of them with something
\* to relay.
WithoutToolCalls(cs) == SelectSeq(cs, LAMBDA c : c.tool_calls = Null)

CarriesTurn(c) ==
    \/ c.content # Undef
    \/ c.refusal # Undef
    \/ Truthy(c.role)
    \/ Truthy(c.finish_reason)

\* The frames written so far that are not notifications.
PrimaryFrames == SelectSeq(written, LAMBDA f : ~IsNotification(f))

\* C37: the assembled content (and refusal) is the in-order concatenation of
\* the content (refusal) fragments of exactly the chunks that carry no
\* tool-call delta; those chunks are forwarded unchanged when they carry
\* content, refusal, role or a finish_reason; a chunk with a tool-call delta
\* is never forwarded, and content, refusal or finish_reason on it is neither
\* relayed nor accumulated.
C37_RelayedAndAccumulated ==
    (body.stream /\ pc \in {"relay", "emit", "finally"}) =>
        LET plain == WithoutToolCalls(ChunksProcessed)
            relayed == SelectSeq(plain, CarriesTurn)
        IN  /\ accumulatedContent = ConveyedText(plain, "content")
            /\ accumulatedRefusal = ConveyedText(plain, "refusal")
            /\ pc = "relay" =>
                /\ ToolCallFramesWritten = {}
                /\ \E n \in 0..Len(relayed) :
                        PrimaryFrames = SubSeq(relayed, 1, n)
                /\ clientConnected => PrimaryFrames = relayed

\* A content chunk was relayed; then a chunk that has content and a finish
\* reason beside its tool-call delta arrived and was not.
C37_Witness ==
    /\ pc = "relay"
    /\ clientConnected
    /\ Len(chunks) = 2
    /\ chunks[1].content = "a" /\ chunks[1].tool_calls = Null
    /\ chunks[2].content = "b" /\ chunks[2].tool_calls # Null
    /\ accumulatedContent = "a"
    /\ written = <<chunks[1]>>

----------------------------------------------------------------------------
(* The tool calls as the client gets them. *)

\* The policy allowed a streamed turn that accumulated tool calls, and the
\* code after the verdict has run for a client that stayed.
AllowedToolCallsEmitted ==
    /\ body.stream
    /\ pc \in {"finally", "done"}
    /\ toolInvocationRefusal = "allow"
    /\ Len(accumulatedToolCalls) > 0
    /\ clientConnected

\* C38: when policy allows a streaming turn that accumulated tool calls,
\* then after the last relayed chunk and before [DONE] each accumulated call
\* is written as exactly two chunks, in index order: first its id and name
\* with empty arguments, then its full accumulated arguments.
C38_TwoChunksPerCall ==
    AllowedToolCallsEmitted =>
        LET n == Len(accumulatedToolCalls)
            start == Len(written) - 2 * n - 1
        IN  /\ start >= 0
            /\ written[Len(written)] = DoneFrame
            /\ \A i \in 1..n :
                /\ written[start + 2 * i - 1]
                        = IdFrame(chunks, i - 1, accumulatedToolCalls[i])
                /\ written[start + 2 * i]
                        = ArgsFrame(chunks, i - 1, accumulatedToolCalls[i])
            /\ \A p \in 1..start : written[p].tool_calls = Null

----------------------------------------------------------------------------
(* The verdict as each path applies it. *)

\* What evaluatePolicies may return to the handler: null or a refusal.
Verdicts == {"allow", "deny"}

\* The message the streaming path persists for a finished turn: the refusal
\* replaces it only inside if (accumulatedToolCalls.length > 0).
StreamingApplies(message, verdict) ==
    IF message.tool_calls # Null /\ verdict = "deny"
    THEN RefusalAssistantMessage
    ELSE message

\* The message the non-streaming path persists: the refusal replaces it
\* whenever one was returned.
NonStreamingApplies(message, verdict) ==
    IF verdict = "deny" THEN RefusalAssistantMessage ELSE message

----------------------------------------------------------------------------
(* The token counts of the record. *)

\* C40: whenever usage was captured, the record's inputTokens and
\* outputTokens equal the captured counts, in the streaming and in the
\* non-streaming path, a captured count of 0 included: a zero count is
\* recorded as 0 and not as null (unknown).
C40_ZeroTokensRecorded ==
    tokenUsage # Null =>
        \A i \in 1..Len(records) :
            /\ records[i].inputTokens = tokenUsage[1].input
            /\ records[i].outputTokens = tokenUsage[1].output

====
